---- MODULE Spec2Model ----
(***************************************************************************)
(* Media library placement engine of ls-torrent-tui (package plex).        *)
(*                                                                         *)
(* Strings are sequences of one-character strings, so that sanitising,     *)
(* joining, cleaning and ordering of paths are computed character by       *)
(* character as the Go code computes them.  Floating point fractions are   *)
(* kept as records [num, den]; den = 0 stands for the IEEE results of a    *)
(* division by zero (NaN when num = 0, +Inf otherwise).                    *)
(***************************************************************************)
EXTENDS Integers, Sequences, FiniteSets, TLC

(***************************************************************************)
(* Bounds of the model.                                                    *)
(***************************************************************************)
\* characters of a name handed to SanitizeFilename at most
MaxLen == 3
\* path components appended to the root in a candidate of ValidatePath at most
MaxParts == 4
\* progress lines one copy process prints at most
MaxLines == 1
\* a copy process reports at most (size of the file + MaxOver) bytes
MaxOver == 1
\* capacity of the progress channel handed to the move
SinkCap == 1
\* moves started from the move dialog in one session at most
MaxMoves == 2

\* fetches of the torrent list in flight that are followed
MaxFetches == 2

(***************************************************************************)
(* Strings.                                                                *)
(***************************************************************************)
\* the characters of the model in byte order
Ascii ==
  << " ", "\"", "'", "(", ")", "*", "-", ".", "/",
     "0", "1", "2", "3", "4", "5", "6", "7", "8", "9",
     ":", "<", ">", "?",
     "A", "B", "E", "M", "S", "X",
     "[", "\\", "_",
     "a", "b", "c", "d", "e", "f", "h", "i", "j", "k", "l", "m", "n", "o", "p", "q", "r",
     "s", "t", "v", "w", "x", "y", "z", "{", "|" >>

Code(c) == CHOOSE k \in 1..Len(Ascii) : Ascii[k] = c

Digits == << "0", "1", "2", "3", "4", "5", "6", "7", "8", "9" >>

IsDigit(c) == \E k \in 1..10 : Digits[k] = c

DigitVal(c) == (CHOOSE k \in 1..10 : Digits[k] = c) - 1

Min(a, b) == IF a < b THEN a ELSE b

\* Go's < on strings: byte-wise lexicographic
RECURSIVE StrLess(_, _)
StrLess(a, b) ==
  IF b = << >> THEN FALSE
  ELSE IF a = << >> THEN TRUE
  ELSE IF Head(a) = Head(b) THEN StrLess(Tail(a), Tail(b))
  ELSE Code(Head(a)) < Code(Head(b))

HasPrefix(s, p) == Len(p) <= Len(s) /\ SubSeq(s, 1, Len(p)) = p

HasSuffix(s, p) == Len(p) <= Len(s) /\ SubSeq(s, Len(s) - Len(p) + 1, Len(s)) = p

Contains(s, p) == \E k \in 1..(Len(s) - Len(p) + 1) : SubSeq(s, k, k + Len(p) - 1) = p

TrimSuffix(s, p) == IF HasSuffix(s, p) THEN SubSeq(s, 1, Len(s) - Len(p)) ELSE s

Count(s, c) == Cardinality({k \in 1..Len(s) : s[k] = c})

LowerOf(c) ==
  CASE c = "A" -> "a" [] c = "B" -> "b" [] c = "E" -> "e" [] c = "M" -> "m"
    [] c = "S" -> "s" [] c = "X" -> "x" [] OTHER -> c

ToLower(s) == [k \in 1..Len(s) |-> LowerOf(s[k])]

\* strings.Trim(s, cutset)
RECURSIVE TrimLeft(_, _)
TrimLeft(s, cut) ==
  IF s /= << >> /\ Head(s) \in cut THEN TrimLeft(Tail(s), cut) ELSE s

RECURSIVE TrimRight(_, _)
TrimRight(s, cut) ==
  IF s /= << >> /\ s[Len(s)] \in cut THEN TrimRight(SubSeq(s, 1, Len(s) - 1), cut) ELSE s

Trim(s, cut) == TrimRight(TrimLeft(s, cut), cut)

\* strconv.Itoa for n >= 0, and fmt's %02d
RECURSIVE Itoa(_)
Itoa(n) == IF n < 10 THEN << Digits[n + 1] >> ELSE Itoa(n \div 10) \o << Digits[(n % 10) + 1] >>

Pad2(n) == IF n < 10 THEN << "0" >> \o Itoa(n) ELSE Itoa(n)

\* strconv.Atoi on a run of digits
RECURSIVE Atoi(_)
Atoi(s) == IF s = << >> THEN 0 ELSE 10 * Atoi(SubSeq(s, 1, Len(s) - 1)) + DigitVal(s[Len(s)])

(***************************************************************************)
(* path/filepath (Unix).                                                   *)
(***************************************************************************)
\* the components of a path between its separators (empty ones included)
RECURSIVE Split(_)
Split(p) ==
  IF \A k \in 1..Len(p) : p[k] /= "/" THEN << p >>
  ELSE LET k == CHOOSE j \in 1..Len(p) : p[j] = "/" /\ \A h \in 1..(j - 1) : p[h] /= "/"
       IN << SubSeq(p, 1, k - 1) >> \o Split(SubSeq(p, k + 1, Len(p)))

\* filepath.Clean's component stack: "." and "" dropped, ".." pops; at the
\* root ".." is dropped, in a relative path a leading ".." is kept
RECURSIVE CleanParts(_, _, _)
CleanParts(parts, acc, rooted) ==
  IF parts = << >> THEN acc
  ELSE LET c == Head(parts) IN
       IF c = << >> \/ c = << "." >> THEN CleanParts(Tail(parts), acc, rooted)
       ELSE IF c = << ".", "." >> THEN
              IF acc /= << >> /\ acc[Len(acc)] /= << ".", "." >>
                THEN CleanParts(Tail(parts), SubSeq(acc, 1, Len(acc) - 1), rooted)
              ELSE IF rooted THEN CleanParts(Tail(parts), acc, rooted)
              ELSE CleanParts(Tail(parts), Append(acc, c), rooted)
       ELSE CleanParts(Tail(parts), Append(acc, c), rooted)

RECURSIVE JoinParts(_)
JoinParts(parts) ==
  IF parts = << >> THEN << >>
  ELSE IF Len(parts) = 1 THEN Head(parts)
  ELSE Head(parts) \o << "/" >> \o JoinParts(Tail(parts))

\* the components of the cleaned path
PathParts(p) == CleanParts(Split(p), << >>, p /= << >> /\ p[1] = "/")

Clean(p) ==
  LET rooted == p /= << >> /\ p[1] = "/"
      body == JoinParts(PathParts(p))
  IN IF rooted THEN << "/" >> \o body
     ELSE IF body = << >> THEN << "." >> ELSE body

\* filepath.Join of two elements: empty elements are ignored
Join(a, b) ==
  IF a = << >> /\ b = << >> THEN << >>
  ELSE IF a = << >> THEN Clean(b)
  ELSE IF b = << >> THEN Clean(a)
  ELSE Clean(a \o << "/" >> \o b)

\* filepath.Base of a path without trailing separators
Base(p) ==
  IF p = << >> THEN << "." >>
  ELSE LET parts == Split(p) IN
       IF parts[Len(parts)] = << >> THEN << "/" >> ELSE parts[Len(parts)]

\* filepath.Dir
Dir(p) ==
  LET parts == Split(p)
  IN Clean(SubSeq(p, 1, Len(p) - Len(parts[Len(parts)])))

\* filepath.Ext: the suffix of the last element from its last dot
Ext(p) ==
  LET b == Split(p)[Len(Split(p))]
  IN IF \A k \in 1..Len(b) : b[k] /= "." THEN << >>
     ELSE LET k == CHOOSE j \in 1..Len(b) : b[j] = "." /\ \A h \in (j + 1)..Len(b) : b[h] /= "."
          IN SubSeq(b, k, Len(b))

\* strings.HasPrefix(abs(path), abs(base)) of absolute paths
ValidatePath(path, allowedBase) == HasPrefix(Clean(path), Clean(allowedBase))

(***************************************************************************)
(* naming.go                                                               *)
(***************************************************************************)
\* the replacer of SanitizeFilename: one character to its replacement
ReplaceChar(c) ==
  CASE c = "/" -> << "-" >>
    [] c = "\\" -> << "-" >>
    [] c = ":" -> << "-" >>
    [] c = "*" -> << >>
    [] c = "?" -> << >>
    [] c = "\"" -> << "'" >>
    [] c = "<" -> << >>
    [] c = ">" -> << >>
    [] c = "|" -> << "-" >>
    [] OTHER -> << c >>

RECURSIVE ReplaceAll(_)
ReplaceAll(s) == IF s = << >> THEN << >> ELSE ReplaceChar(Head(s)) \o ReplaceAll(Tail(s))

\* the scaffold's SanitizeFilename, which returns its argument unchanged
SanitizeFilenameStub(name) == name

\* a SanitizeFilename that trims before it replaces
SanitizeFilenameTrimFirst(name) == ReplaceAll(Trim(name, {" ", "."}))

SanitizeFilename(name) == Trim(ReplaceAll(name), {" ", "."})

\* a FormatMoviePath that returns the file name without the movie's folder
FormatMoviePathFlat(title, year, ext) ==
  IF title = << >> THEN [err |-> TRUE, path |-> << >>]
  ELSE LET t == SanitizeFilename(title)
           folderName == IF year > 0 THEN t \o << " ", "(" >> \o Itoa(year) \o << ")" >> ELSE t
       IN [err |-> FALSE, path |-> folderName \o ext]

\* FormatMoviePath: [err, path]
FormatMoviePath(title, year, ext) ==
  IF title = << >> THEN [err |-> TRUE, path |-> << >>]
  ELSE LET t == SanitizeFilename(title)
           folderName == IF year > 0 THEN t \o << " ", "(" >> \o Itoa(year) \o << ")" >> ELSE t
           fileName == folderName \o ext
       IN [err |-> FALSE, path |-> Join(folderName, fileName)]

\* a FormatTVPath that accepts the empty show title
FormatTVPathUnchecked(showTitle, season) ==
  [err |-> FALSE,
   path |-> Join(SanitizeFilename(showTitle),
                 << "S", "e", "a", "s", "o", "n", " " >> \o Pad2(season))]

\* FormatTVPath: [err, path]
FormatTVPath(showTitle, season) ==
  IF showTitle = << >> THEN [err |-> TRUE, path |-> << >>]
  ELSE [err |-> FALSE,
        path |-> Join(SanitizeFilename(showTitle),
                      << "S", "e", "a", "s", "o", "n", " " >> \o Pad2(season))]

(***************************************************************************)
(* detect.go                                                               *)
(***************************************************************************)
\* the digit runs of length 2 and 1 (greedy first) that start at position k
DigitRun(name, k, n) == k + n - 1 <= Len(name) /\ \A h \in k..(k + n - 1) : IsDigit(name[h])

\* a match of tvPatternSE at position k with a season digits and b episode digits
MatchSE(name, k, a, b) ==
  /\ k <= Len(name) /\ name[k] \in {"s", "S"}
  /\ DigitRun(name, k + 1, a)
  /\ k + 1 + a <= Len(name) /\ name[k + 1 + a] \in {"e", "E"}
  /\ DigitRun(name, k + 2 + a, b)

\* a match of tvPatternX at position k with a season digits (episode: exactly 2)
MatchX(name, k, a) ==
  /\ DigitRun(name, k, a)
  /\ k + a <= Len(name) /\ name[k + a] \in {"x", "X"}
  /\ DigitRun(name, k + a + 1, 2)

\* strings.ReplaceAll(raw, ".", " ") and (raw, "_", " ")
DotsToSpaces(s) == [k \in 1..Len(s) |-> IF s[k] \in {".", "_"} THEN " " ELSE s[k]]

\* spacePattern.ReplaceAllString(s, " "): a run of spaces becomes one space
RECURSIVE CollapseSpaces(_)
CollapseSpaces(s) ==
  IF Len(s) < 2 THEN s
  ELSE IF s[1] = " " /\ s[2] = " " THEN CollapseSpaces(Tail(s))
  ELSE << s[1] >> \o CollapseSpaces(Tail(s))

\* cleanTitle
cleanTitle(raw) ==
  Trim(CollapseSpaces(TrimRight(DotsToSpaces(raw), {" ", "-", "(", "[", "{"})), {" "})

\* detectTV: the leftmost match, each field as long as it can be; Confidence
\* in hundredths
detectTV(name) ==
  IF \E k \in 1..Len(name), a \in 1..2, b \in 1..2 : MatchSE(name, k, a, b) THEN
    LET k == CHOOSE j \in 1..Len(name) :
               /\ \E a \in 1..2, b \in 1..2 : MatchSE(name, j, a, b)
               /\ \A h \in 1..(j - 1) : ~ \E a \in 1..2, b \in 1..2 : MatchSE(name, h, a, b)
        a == IF \E b \in 1..2 : MatchSE(name, k, 2, b) THEN 2 ELSE 1
        b == IF MatchSE(name, k, a, 2) THEN 2 ELSE 1
    IN [ok |-> TRUE, Season |-> Atoi(SubSeq(name, k + 1, k + a)),
        Episode |-> Atoi(SubSeq(name, k + 2 + a, k + 1 + a + b)), idx |-> k,
        Title |-> cleanTitle(SubSeq(name, 1, k - 1)), Confidence |-> 90]
  ELSE IF \E k \in 1..Len(name), a \in 1..2 : MatchX(name, k, a) THEN
    LET k == CHOOSE j \in 1..Len(name) :
               /\ \E a \in 1..2 : MatchX(name, j, a)
               /\ \A h \in 1..(j - 1) : ~ \E a \in 1..2 : MatchX(name, h, a)
        a == IF MatchX(name, k, 2) THEN 2 ELSE 1
    IN [ok |-> TRUE, Season |-> Atoi(SubSeq(name, k, k + a - 1)),
        Episode |-> Atoi(SubSeq(name, k + a + 1, k + a + 2)), idx |-> k,
        Title |-> cleanTitle(SubSeq(name, 1, k - 1)), Confidence |-> 85]
  ELSE [ok |-> FALSE, Season |-> 0, Episode |-> 0, idx |-> 0, Title |-> << >>,
        Confidence |-> 0]

\* a match of yearPattern at position k
MatchYear(name, k) ==
  /\ k + 3 <= Len(name)
  /\ SubSeq(name, k, k + 1) \in { << "1", "9" >>, << "2", "0" >> }
  /\ DigitRun(name, k + 2, 2)

\* a detectMovie that accepts an empty title
detectMovieAnyTitle(name) ==
  IF \E k \in 1..Len(name) : MatchYear(name, k) THEN
    LET k == CHOOSE j \in 1..Len(name) :
               MatchYear(name, j) /\ \A h \in 1..(j - 1) : ~ MatchYear(name, h)
    IN [ok |-> TRUE, Year |-> Atoi(SubSeq(name, k, k + 3)),
        Title |-> cleanTitle(SubSeq(name, 1, k - 1))]
  ELSE [ok |-> FALSE, Year |-> 0, Title |-> << >>]

\* detectMovie: the leftmost year, the title before it; [ok, Year, Title]
detectMovie(name) ==
  IF \E k \in 1..Len(name) : MatchYear(name, k) THEN
    LET k == CHOOSE j \in 1..Len(name) :
               MatchYear(name, j) /\ \A h \in 1..(j - 1) : ~ MatchYear(name, h)
        title == cleanTitle(SubSeq(name, 1, k - 1))
    IN IF title = << >> THEN [ok |-> FALSE, Year |-> 0, Title |-> << >>]
       ELSE [ok |-> TRUE, Year |-> Atoi(SubSeq(name, k, k + 3)), Title |-> title]
  ELSE [ok |-> FALSE, Year |-> 0, Title |-> << >>]

\* a Detect that tries the movie detection first
DetectMovieFirst(filename) ==
  LET name == Base(filename)
      nameNoExt == TrimSuffix(name, Ext(name))
      tv == detectTV(nameNoExt)
      movie == detectMovie(nameNoExt)
  IN IF movie.ok THEN
       [Type |-> "Movie", Title |-> movie.Title, Year |-> movie.Year, Season |-> 0,
        Episode |-> 0, Confidence |-> 80, err |-> FALSE]
     ELSE IF tv.ok THEN
       [Type |-> "TV", Title |-> tv.Title, Year |-> 0, Season |-> tv.Season,
        Episode |-> tv.Episode, Confidence |-> tv.Confidence, err |-> FALSE]
     ELSE
       [Type |-> "Unknown", Title |-> cleanTitle(nameNoExt), Year |-> 0, Season |-> 0,
        Episode |-> 0, Confidence |-> 10, err |-> TRUE]

\* Detect: the DetectionResult and err (ErrDetectionFailed)
Detect(filename) ==
  LET name == Base(filename)
      nameNoExt == TrimSuffix(name, Ext(name))
      tv == detectTV(nameNoExt)
      movie == detectMovie(nameNoExt)
  IN IF tv.ok THEN
       [Type |-> "TV", Title |-> tv.Title, Year |-> 0, Season |-> tv.Season,
        Episode |-> tv.Episode, Confidence |-> tv.Confidence, err |-> FALSE]
     ELSE IF movie.ok THEN
       [Type |-> "Movie", Title |-> movie.Title, Year |-> movie.Year, Season |-> 0,
        Episode |-> 0, Confidence |-> 80, err |-> FALSE]
     ELSE
       [Type |-> "Unknown", Title |-> cleanTitle(nameNoExt), Year |-> 0, Season |-> 0,
        Episode |-> 0, Confidence |-> 10, err |-> TRUE]

\* DetectFromPath: Detect(path), and on Unknown Detect(filepath.Base(path))
DetectFromPath(path) ==
  LET result == Detect(path)
  IN IF ~ result.err /\ result.Type /= "Unknown" THEN result ELSE Detect(Base(path))

\* the Season field of DetectFromPath(path): both of its attempts look at
\* the extension-stripped last element of the path
DetectSeason(path) ==
  LET name == Base(path) IN detectTV(TrimSuffix(name, Ext(name))).Season

(***************************************************************************)
(* The download directory: the source trees a move is asked to move.       *)
(* A tree is [source: the path handed to the move, files: path -> size].   *)
(***************************************************************************)
\* /d/a.mkv, a single-file download, with another download's subtitle at /d/o/b.srt
TreeFile ==
  [source |-> << "/", "d", "/", "a", ".", "m", "k", "v" >>,
   files |-> { [path |-> << "/", "d", "/", "a", ".", "m", "k", "v" >>, size |-> 2],
               [path |-> << "/", "d", "/", "o", "/", "b", ".", "s", "r", "t" >>, size |-> 1] }]

\* /d/p: a movie directory with a larger sample clip, a subtitle and an NFO
TreeMovieDir ==
  [source |-> << "/", "d", "/", "p" >>,
   files |-> { [path |-> << "/", "d", "/", "p", "/", "a", ".", "m", "k", "v" >>, size |-> 2],
               [path |-> << "/", "d", "/", "p", "/", "s", "a", "m", "p", "l", "e", ".", "m", "k", "v" >>, size |-> 3],
               [path |-> << "/", "d", "/", "p", "/", "a", ".", "s", "r", "t" >>, size |-> 1],
               [path |-> << "/", "d", "/", "p", "/", "i", ".", "n", "f", "o" >>, size |-> 1] }]

\* /d/s: a pack with episodes of two seasons and one subtitle
TreePack ==
  [source |-> << "/", "d", "/", "s" >>,
   files |-> { [path |-> << "/", "d", "/", "s", "/", "S", "1", "E", "1", ".", "m", "k", "v" >>, size |-> 2],
               [path |-> << "/", "d", "/", "s", "/", "S", "2", "E", "1", ".", "m", "k", "v" >>, size |-> 1],
               [path |-> << "/", "d", "/", "s", "/", "S", "1", "E", "1", ".", "s", "r", "t" >>, size |-> 1] }]

\* /d/q: a video below a subdirectory whose name is a prefix of a sibling file
TreeDeep ==
  [source |-> << "/", "d", "/", "q" >>,
   files |-> { [path |-> << "/", "d", "/", "q", "/", "a", "/", "x", ".", "m", "k", "v" >>, size |-> 1],
               [path |-> << "/", "d", "/", "q", "/", "a", ".", "m", "k", "v" >>, size |-> 1] }]

\* /d/z: a pack of empty video files
TreeZero ==
  [source |-> << "/", "d", "/", "z" >>,
   files |-> { [path |-> << "/", "d", "/", "z", "/", "a", ".", "m", "k", "v" >>, size |-> 0],
               [path |-> << "/", "d", "/", "z", "/", "b", ".", "m", "k", "v" >>, size |-> 0] }]

\* /d/e: a movie directory that holds the movie and its subtitle only
TreeSolo ==
  [source |-> << "/", "d", "/", "e" >>,
   files |-> { [path |-> << "/", "d", "/", "e", "/", "a", ".", "m", "k", "v" >>, size |-> 1],
               [path |-> << "/", "d", "/", "e", "/", "a", ".", "s", "r", "t" >>, size |-> 1] }]

\* /d/w: a directory named a.mkv that holds the video a.mkv
TreeNest ==
  [source |-> << "/", "d", "/", "w" >>,
   files |-> { [path |-> << "/", "d", "/", "w", "/", "a", ".", "m", "k", "v", "/", "a", ".", "m", "k", "v" >>, size |-> 1] }]

\* /d/y: an episode of the specials, season 0
TreeSpecial ==
  [source |-> << "/", "d", "/", "y" >>,
   files |-> { [path |-> << "/", "d", "/", "y", "/", "S", "0", "E", "1", ".", "m", "k", "v" >>, size |-> 1] }]

\* /d/n: a season pack with two episodes of season 1
TreeSeason ==
  [source |-> << "/", "d", "/", "n" >>,
   files |-> { [path |-> << "/", "d", "/", "n", "/", "S", "1", "E", "1", ".", "m", "k", "v" >>, size |-> 1],
               [path |-> << "/", "d", "/", "n", "/", "S", "1", "E", "2", ".", "m", "k", "v" >>, size |-> 1] }]

\* /d/r: two episodes, a larger sample clip and the subtitle of the first episode
TreeShow ==
  [source |-> << "/", "d", "/", "r" >>,
   files |-> { [path |-> << "/", "d", "/", "r", "/", "S", "h", "o", "w", ".", "S", "0", "1", "E", "0", "1", ".", "m", "k", "v" >>, size |-> 2],
               [path |-> << "/", "d", "/", "r", "/", "S", "h", "o", "w", ".", "S", "0", "1", "E", "0", "2", ".", "m", "k", "v" >>, size |-> 1],
               [path |-> << "/", "d", "/", "r", "/", "s", "a", "m", "p", "l", "e", ".", "m", "k", "v" >>, size |-> 3],
               [path |-> << "/", "d", "/", "r", "/", "S", "h", "o", "w", ".", "S", "0", "1", "E", "0", "1", ".", "e", "n", ".", "s", "r", "t" >>, size |-> 1] }]

\* /d/l: videos and subtitles one, two and three levels below the directory
TreeLevels ==
  [source |-> << "/", "d", "/", "l" >>,
   files |-> { [path |-> << "/", "d", "/", "l", "/", "a", ".", "m", "k", "v" >>, size |-> 1],
               [path |-> << "/", "d", "/", "l", "/", "b", ".", "s", "r", "t" >>, size |-> 1],
               [path |-> << "/", "d", "/", "l", "/", "x", "/", "b", ".", "m", "k", "v" >>, size |-> 1],
               [path |-> << "/", "d", "/", "l", "/", "x", "/", "A", ".", "e", "n", ".", "s", "r", "t" >>, size |-> 1],
               [path |-> << "/", "d", "/", "l", "/", "x", "/", "y", "/", "a", ".", "m", "k", "v" >>, size |-> 1],
               [path |-> << "/", "d", "/", "l", "/", "x", "/", "y", "/", "a", ".", "s", "r", "t" >>, size |-> 1] }]

\* /d/k: the same episode file name in two sub-directories
TreeTwin ==
  [source |-> << "/", "d", "/", "k" >>,
   files |-> { [path |-> << "/", "d", "/", "k", "/", "a", "/", "S", "1", "E", "1", ".", "m", "k", "v" >>, size |-> 1],
               [path |-> << "/", "d", "/", "k", "/", "b", "/", "S", "1", "E", "1", ".", "m", "k", "v" >>, size |-> 2] }]

\* /d/j: episodes 1 and 10 of season 1, and the subtitle of episode 10
TreeTens ==
  [source |-> << "/", "d", "/", "j" >>,
   files |-> { [path |-> << "/", "d", "/", "j", "/", "S", "1", "E", "1", ".", "m", "k", "v" >>, size |-> 1],
               [path |-> << "/", "d", "/", "j", "/", "S", "1", "E", "1", "0", ".", "m", "k", "v" >>, size |-> 1],
               [path |-> << "/", "d", "/", "j", "/", "S", "1", "E", "1", "0", ".", "s", "r", "t" >>, size |-> 1] }]

Trees == { TreeFile, TreeMovieDir, TreePack, TreeDeep, TreeZero, TreeSolo,
           TreeNest, TreeSpecial, TreeSeason, TreeTwin, TreeTens }

\* the proper ancestors of a path, as paths
Ancestors(p) == { SubSeq(p, 1, k - 1) : k \in { j \in 2..Len(p) : p[j] = "/" } }

\* the directories of a tree at and below the download directory
TreeDirs(tree) ==
  { d \in UNION { Ancestors(f.path) : f \in tree.files } : Len(d) >= 2 }

\* os.Stat(path).Size() of a file of the tree
SizeOf(tree, path) == (CHOOSE f \in tree.files : f.path = path).size

(***************************************************************************)
(* Video/subtitle locator (move.go).  fs is the set of existing paths,     *)
(* files and directories alike; a path of the tree that is no file of it   *)
(* is a directory.                                                         *)
(***************************************************************************)
IsFile(tree, p) == \E f \in tree.files : f.path = p

IsDir(tree, p) == p \in TreeDirs(tree)

\* the videoExtensions map
videoExtensions ==
  { << ".", "m", "k", "v" >>, << ".", "m", "p", "4" >>, << ".", "m", "4", "v" >>,
    << ".", "a", "v", "i" >>, << ".", "m", "o", "v" >>, << ".", "w", "m", "v" >> }

Sample == << "s", "a", "m", "p", "l", "e" >>

Srt == << ".", "s", "r", "t" >>

\* filepath.Rel(base, p) for p below base
Rel(base, p) == SubSeq(p, Len(base) + 2, Len(p))

Below(base, p) == HasPrefix(p, base \o << "/" >>)

\* the order in which filepath.Walk and os.ReadDir visit: entries of one
\* directory by name, a directory's content right after the directory
RECURSIVE PartsLess(_, _)
PartsLess(a, b) ==
  IF b = << >> THEN FALSE
  ELSE IF a = << >> THEN TRUE
  ELSE IF Head(a) = Head(b) THEN PartsLess(Tail(a), Tail(b))
  ELSE StrLess(Head(a), Head(b))

WalkLess(p, q) == PartsLess(Split(p), Split(q))

\* the paths of S in walk order
RECURSIVE WalkOrder(_)
WalkOrder(S) ==
  IF S = {} THEN << >>
  ELSE LET m == CHOOSE x \in S : \A y \in S \ {x} : WalkLess(x, y)
       IN << m >> \o WalkOrder(S \ {m})

\* sort.Strings
RECURSIVE SortStrings(_)
SortStrings(S) ==
  IF S = {} THEN << >>
  ELSE LET m == CHOOSE x \in S : \A y \in S \ {x} : StrLess(x, y)
       IN << m >> \o SortStrings(S \ {m})

\* a walk without the depth test
WalkedAnyDepth(tree, fs, base) == { p \in fs : IsFile(tree, p) /\ Below(base, p) }

\* the files filepath.Walk(base) hands to the callbacks that pass the depth test
Walked(tree, fs, base) ==
  { p \in fs : IsFile(tree, p) /\ Below(base, p) /\ Count(Rel(base, p), "/") <= 1 }

IsVideoName(name) == Ext(ToLower(name)) \in videoExtensions

IsSampleName(name) == Contains(ToLower(name), Sample)

\* the loop of FindMainVideo over the directory entries, in ReadDir order
RECURSIVE LargestOf(_, _, _, _)
LargestOf(tree, entries, largest, largestSize) ==
  IF entries = << >> THEN largest
  ELSE LET p == Head(entries) IN
       IF ~ IsSampleName(Base(p)) /\ IsVideoName(Base(p)) /\ SizeOf(tree, p) > largestSize
         THEN LargestOf(tree, Tail(entries), p, SizeOf(tree, p))
         ELSE LargestOf(tree, Tail(entries), largest, largestSize)

\* FindMainVideo: [err, path]
FindMainVideo(tree, fs, path) ==
  IF path \notin fs THEN [err |-> TRUE, path |-> << >>]
  ELSE IF ~ IsDir(tree, path) THEN
    IF IsVideoName(path) THEN [err |-> FALSE, path |-> path] ELSE [err |-> TRUE, path |-> << >>]
  ELSE LET entries == WalkOrder({ p \in fs : IsFile(tree, p) /\ Below(path, p)
                                              /\ Count(Rel(path, p), "/") = 0 })
           largest == LargestOf(tree, entries, << >>, 0)
       IN [err |-> largest = << >>, path |-> largest]

\* FindAllVideos without its final sort: the videos in walk order
FindAllVideosUnsorted(tree, fs, path) ==
  IF path \notin fs THEN [err |-> TRUE, videos |-> << >>]
  ELSE IF ~ IsDir(tree, path) THEN
    IF IsVideoName(path) THEN [err |-> FALSE, videos |-> << path >>]
    ELSE [err |-> TRUE, videos |-> << >>]
  ELSE LET vs == { p \in Walked(tree, fs, path) : ~ IsSampleName(Base(p)) /\ IsVideoName(Base(p)) }
       IN [err |-> vs = {}, videos |-> WalkOrder(vs)]

\* FindAllVideos: [err, videos]
FindAllVideos(tree, fs, path) ==
  IF path \notin fs THEN [err |-> TRUE, videos |-> << >>]
  ELSE IF ~ IsDir(tree, path) THEN
    IF IsVideoName(path) THEN [err |-> FALSE, videos |-> << path >>]
    ELSE [err |-> TRUE, videos |-> << >>]
  ELSE LET vs == { p \in Walked(tree, fs, path) : ~ IsSampleName(Base(p)) /\ IsVideoName(Base(p)) }
       IN [err |-> vs = {}, videos |-> SortStrings(vs)]

\* FindSubtitles: the .srt files within two levels, in walk order
FindSubtitles(tree, fs, path) ==
  IF path \notin fs THEN << >>
  ELSE LET baseDir == IF IsDir(tree, path) THEN path ELSE Dir(path)
       IN WalkOrder({ p \in Walked(tree, fs, baseDir) : HasSuffix(ToLower(p), Srt) })

\* a FindSubtitlesForVideo that takes every .srt file
FindSubtitlesAnyVideo(tree, fs, baseDir, videoPath) ==
  WalkOrder({ p \in Walked(tree, fs, baseDir) : HasSuffix(ToLower(Base(p)), Srt) })

\* FindSubtitlesForVideo: the .srt files whose name starts with the video's
FindSubtitlesForVideo(tree, fs, baseDir, videoPath) ==
  LET videoBase == Base(videoPath)
      videoNoExt == TrimSuffix(videoBase, Ext(videoBase))
  IN WalkOrder({ p \in Walked(tree, fs, baseDir) :
                   /\ HasSuffix(ToLower(Base(p)), Srt)
                   /\ HasPrefix(ToLower(Base(p)), ToLower(videoNoExt)) })

(***************************************************************************)
(* Floating point fractions.                                               *)
(***************************************************************************)
\* float64(n) / float64(d)
Div(n, d) == [num |-> n, den |-> d]

IsNaN(f) == f.den = 0 /\ f.num = 0

\* f > 1.0 (false for NaN, true for +Inf)
GtOne(f) == IF f.den = 0 THEN f.num > 0 ELSE f.num > f.den

\* a <= b (false when either is NaN)
FracLE(a, b) ==
  /\ ~ IsNaN(a) /\ ~ IsNaN(b)
  /\ IF b.den = 0 THEN TRUE
     ELSE IF a.den = 0 THEN FALSE
     ELSE a.num * b.den <= b.num * a.den

\* 0 <= f <= 1
InUnit(f) == ~ IsNaN(f) /\ f.den > 0 /\ 0 <= f.num /\ f.num <= f.den

One == Div(1, 1)

Zero == Div(0, 1)

(***************************************************************************)
(* The move (move.go, and the earlier MoveToLibraryWithProgress that       *)
(* cleans the source up itself).                                           *)
(***************************************************************************)
VARIABLES
  req,        \* the call: [version, tree, Type, Title, Year, Season, cleanup, UseSudo, sink]
  fs,         \* the source paths that exist (files and directories)
  pc,         \* where the move's goroutine stands
  loc,        \* the locals of the move
  running,    \* the child processes that run
  chan,       \* the content of the progress channel
  emitted,    \* every MoveProgress handed to a send, with sent: the send enqueued
              \* it, and video: the video the move was copying
  io,         \* the directory creations and process starts and exits, in order
  cancelled,  \* the caller's context is cancelled
  result,     \* what the move returned
  ui,         \* the terminal front end: the fields of its Model that the move
              \* dialog uses, the move commands in flight and their messages
  call        \* a call of one of the package's functions on its own:
              \* [fn: the function, in: its arguments, out: what it returned]

vars == << req, fs, pc, loc, running, chan, emitted, io, cancelled, result, ui, call >>

MovieLibraryPath == << "/", "m" >>

TVLibraryPath == << "/", "t" >>

\* the titles a caller passes
Titles == { << >>, << "a" >>, << ".", "." >>, << ".", ".", "/", "b" >>, << "?" >>,
            << "S", "h", "o", "w" >> }

NoResult == [err |-> FALSE, stderr |-> FALSE, res |-> << >>]

Failure(text) == [err |-> TRUE, stderr |-> text, res |-> << >>]

InitialFs(tree) == { f.path : f \in tree.files } \cup TreeDirs(tree)

sourcePath == req.tree.source

sourceIsDir == IsDir(req.tree, sourcePath)

sourceDir == IF sourceIsDir THEN sourcePath ELSE Dir(sourcePath)

Multi == req.version = "current" /\ req.Type = "TV"

\* The calls explored are those of a plainly named item under the options
\* of the move, and those of every title, year and season with the options off.
PlainlyNamed(r) ==
  /\ \/ r.Title = << "a" >>
     \/ r.Title = << "S", "h", "o", "w" >> /\ r.tree = TreeSeason /\ r.Type = "TV"
  /\ (r.Type = "Movie" => r.Year = 1999)
  /\ (r.Type = "TV" => r.Season = 3)
  /\ (r.UseSudo => ~ r.cleanup)

\* the front end before any key: no dialog, no move in flight; Init() has
\* started the first fetchTorrents, which cannot set the model's isFetching
UiInit ==
  [quit |-> FALSE, confirmingQuit |-> FALSE, activeTab |-> "search", completed |-> 0,
   showMoveModal |-> FALSE, moveEditing |-> FALSE, moveInProgress |-> FALSE,
   moveMediaType |-> "Movie", moveCleanup |-> FALSE, moveError |-> FALSE,
   flights |-> 0, msgs |-> << >>, started |-> 0,
   isFetching |-> FALSE, fetching |-> 1]

\* no function of the package has been called on its own
NoCall == [fn |-> "none", in |-> << >>, out |-> << >>]

Init ==
  /\ ui = UiInit
  /\ call = NoCall
  /\ req \in [version : {"current", "legacy"}, tree : Trees, Type : {"Movie", "TV", "Unknown"},
              Title : Titles, Year : {0, 1999}, Season : {0, 3},
              cleanup : BOOLEAN, UseSudo : BOOLEAN, sink : BOOLEAN]
  /\ (req.Type /= "Movie" => req.Year = 0)
  /\ (req.Type /= "TV" => req.Season = 0)
  /\ \/ PlainlyNamed(req)
     \/ ~ req.cleanup /\ ~ req.UseSudo /\ ~ req.sink
  /\ fs = InitialFs(req.tree)
  /\ pc = "start"
  /\ loc = [videos |-> << >>, i |-> 0, totalBytes |-> 0, bytesCopied |-> 0,
            destDir |-> << >>, destFile |-> << >>, subs |-> << >>, k |-> 0,
            movedSubs |-> << >>]
  /\ running = {}
  /\ chan = << >>
  /\ emitted = << >>
  /\ io = << >>
  /\ cancelled = FALSE
  /\ result = NoResult

RECURSIVE SumSizes(_, _)
SumSizes(tree, ps) ==
  IF ps = << >> THEN 0 ELSE SizeOf(tree, Head(ps)) + SumSizes(tree, Tail(ps))

\* the destination of a movie: [err, dir, file]
MovieDest(title, year, video) ==
  LET f == FormatMoviePath(title, year, Ext(video))
  IN [err |-> f.err, dir |-> MovieLibraryPath, file |-> Join(MovieLibraryPath, f.path)]

\* a TV destination that names the file after the show
TVDestRenamed(title, fallback, season, video) ==
  LET s == IF season = 0 THEN fallback ELSE season
      f == FormatTVPath(title, s)
      dir == Join(TVLibraryPath, f.path)
  IN [err |-> f.err, dir |-> dir, file |-> Join(dir, SanitizeFilename(title) \o Ext(video))]

\* the destination of one video of a TV move: [err, dir, file]
TVDest(title, fallback, season, video) ==
  LET s == IF season = 0 THEN fallback ELSE season
      f == FormatTVPath(title, s)
      dir == Join(TVLibraryPath, f.path)
  IN [err |-> f.err, dir |-> dir, file |-> Join(dir, Base(video))]

Return(r) ==
  /\ pc' = "done"
  /\ result' = r

\* MoveToLibraryWithProgress up to the first write: the source is found and,
\* for a movie, the destination is named
Begin ==
  /\ pc = "start"
  /\ UNCHANGED << call, ui, req, fs, running, chan, emitted, io, cancelled >>
  /\ IF req.version = "current" /\ req.Type = "Unknown" THEN
       Return(Failure(FALSE)) /\ UNCHANGED loc
     ELSE IF Multi THEN
       LET found == FindAllVideos(req.tree, fs, sourcePath) IN
       IF found.err THEN Return(Failure(FALSE)) /\ UNCHANGED loc
       ELSE /\ loc' = [loc EXCEPT !.videos = found.videos, !.i = 1,
                                  !.totalBytes = SumSizes(req.tree, found.videos)]
            /\ pc' = "mkdir"
            /\ UNCHANGED result
     ELSE
       LET found == FindMainVideo(req.tree, fs, sourcePath)
           dest == IF req.Type = "Movie" THEN MovieDest(req.Title, req.Year, found.path)
                   ELSE TVDest(req.Title, req.Season, 0, found.path)
       IN IF found.err \/ req.Type = "Unknown" \/ dest.err THEN
            Return(Failure(FALSE)) /\ UNCHANGED loc
          ELSE /\ loc' = [loc EXCEPT !.videos = << found.path >>, !.i = 1,
                                     !.totalBytes = SizeOf(req.tree, found.path),
                                     !.destDir = dest.dir, !.destFile = dest.file,
                                     !.subs = IF req.version = "current"
                                              THEN FindSubtitles(req.tree, fs, sourcePath)
                                              ELSE << >>]
               /\ pc' = "mkdir"
               /\ UNCHANGED result

\* mkdirAll: the attempts it makes, in order, and its error; first is the
\* outcome of os.MkdirAll, second that of the fallback (sudo mkdir, or the
\* same os.MkdirAll again)
mkdirAll(useSudo, path, first, second) ==
  IF first THEN [ops |-> << [op |-> "mkdir", path |-> path, ok |-> TRUE] >>, err |-> FALSE]
  ELSE IF useSudo THEN
    [ops |-> << [op |-> "mkdir", path |-> path, ok |-> FALSE],
                [op |-> "sudo mkdir", path |-> path, ok |-> second] >>, err |-> ~ second]
  ELSE [ops |-> << [op |-> "mkdir", path |-> path, ok |-> FALSE],
                   [op |-> "mkdir", path |-> path, ok |-> second] >>, err |-> ~ second]

video == loc.videos[loc.i]

\* the head of the loop over the videos (TV) and the creation of the
\* destination directory, which is skipped under sudo
Mkdir ==
  /\ pc = "mkdir"
  /\ UNCHANGED << call, ui, req, fs, running, chan, emitted, cancelled >>
  /\ LET dest == IF Multi THEN TVDest(req.Title, req.Season, DetectSeason(video), video)
                 ELSE [err |-> FALSE, dir |-> loc.destDir, file |-> loc.destFile]
     IN IF dest.err THEN Return(Failure(FALSE)) /\ UNCHANGED << loc, io >>
        ELSE /\ loc' = [loc EXCEPT !.destDir = dest.dir, !.destFile = dest.file]
             /\ IF req.UseSudo THEN pc' = "spawn" /\ UNCHANGED << io, result >>
                ELSE \E first \in BOOLEAN, second \in BOOLEAN :
                       LET made == mkdirAll(req.UseSudo, dest.dir, first, second) IN
                       /\ second = first
                       /\ io' = io \o made.ops
                       /\ IF made.err THEN Return(Failure(FALSE))
                          ELSE pc' = "spawn" /\ UNCHANGED result

\* the command line of a copy: [name of the program started, src, dst]
RsyncCommand(useSudo, src, dst) ==
  [program |-> IF useSudo THEN "sudo -n rsync" ELSE "rsync", src |-> src, dst |-> dst]

\* moveTV: "videoInfo, _ := os.Stat(video); videoSize := videoInfo.Size()".
\* For a video that is gone os.Stat returns a nil FileInfo and the call of
\* Size() on it panics: the program ends, nothing is returned.
StatPanics(fsNow) == Multi /\ video \notin fsNow

\* cmd.Start() of the video copy (exec.CommandContext): a cancelled context
\* and a program that cannot be started both fail the move
StartCopy ==
  /\ pc = "spawn"
  /\ UNCHANGED << call, ui, req, fs, loc, chan, emitted, cancelled >>
  /\ IF StatPanics(fs) THEN
       pc' = "panic" /\ UNCHANGED << io, running, result >>
     ELSE
     \E started \in BOOLEAN :
       LET cmd == RsyncCommand(req.UseSudo, video, loc.destFile) IN
       IF cancelled \/ ~ started THEN
         /\ cancelled => started
         /\ io' = Append(io, [op |-> "nostart", kind |-> "video", cmd |-> cmd])
         /\ Return(Failure(FALSE))
         /\ UNCHANGED running
       ELSE
         /\ running' = running \cup { [kind |-> "video", cmd |-> cmd, ctx |-> TRUE,
                                       signalled |-> FALSE, killed |-> FALSE,
                                       lines |-> 0, last |-> 0] }
         /\ io' = Append(io, [op |-> "start", kind |-> "video", cmd |-> cmd])
         /\ pc' = "copying"
         /\ UNCHANGED result

\* the percentage rsync prints next to a byte count
RsyncPct(copied, size) == IF size = 0 THEN 100 ELSE (100 * copied) \div size

\* the MoveProgress of rsyncWithProgress for one parsed line
SingleEvent(version, copied, pct, totalBytes) ==
  LET c == IF version = "current" THEN Min(copied, totalBytes) ELSE copied
      q == IF version = "current" THEN Min(pct, 100) ELSE pct
  IN [BytesCopied |-> c, TotalBytes |-> totalBytes, Percentage |-> Div(q, 100),
      EpisodeIndex |-> 0, EpisodeTotal |-> 0, EpisodeProgress |-> Zero]

\* an rsyncWithProgressOffset that leaves the episode fields at zero
OffsetEventNoIndex(fileCopied, fileBytes, totalBytes, byteOffset, episodeIndex, episodeTotal) ==
  LET overallCopied == Min(byteOffset + fileCopied, totalBytes)
      overallPct == Div(overallCopied, totalBytes)
  IN [BytesCopied |-> overallCopied, TotalBytes |-> totalBytes,
      Percentage |-> IF GtOne(overallPct) THEN One ELSE overallPct,
      EpisodeIndex |-> 0, EpisodeTotal |-> 0, EpisodeProgress |-> Zero]

\* the MoveProgress of rsyncWithProgressOffset for one parsed line
OffsetEvent(fileCopied, fileBytes, totalBytes, byteOffset, episodeIndex, episodeTotal) ==
  LET overallCopied == Min(byteOffset + fileCopied, totalBytes)
      overallPct == Div(overallCopied, totalBytes)
      episodePct == Div(fileCopied, fileBytes)
  IN [BytesCopied |-> overallCopied, TotalBytes |-> totalBytes,
      Percentage |-> IF GtOne(overallPct) THEN One ELSE overallPct,
      EpisodeIndex |-> episodeIndex, EpisodeTotal |-> episodeTotal,
      EpisodeProgress |-> IF GtOne(episodePct) THEN One ELSE episodePct]

\* the MoveProgress moveTV sends when a video and its subtitles are done
BetweenEvent(bytesCopied, totalBytes, episodeIndex, episodeTotal) ==
  [BytesCopied |-> bytesCopied, TotalBytes |-> totalBytes,
   Percentage |-> Div(bytesCopied, totalBytes),
   EpisodeIndex |-> episodeIndex, EpisodeTotal |-> episodeTotal, EpisodeProgress |-> One]

\* select { case progress <- e: default: }: the channel after the send
TrySend(ch, e) == IF Len(ch) < SinkCap THEN Append(ch, e) ELSE ch

\* the record of an emission: the event, whether the channel took it, and
\* the video of the loop at the time
Emission(e, sent) == [sent |-> sent, video |-> video] @@ e

\* the running child process of the move (there is one while it copies)
proc == CHOOSE p \in running : TRUE

\* the copy process prints one progress line, the scanner loop parses it and
\* offers the event to the channel
ProgressLine ==
  /\ pc = "copying"
  /\ ~ cancelled
  /\ proc.lines < MaxLines
  /\ UNCHANGED << call, ui, req, fs, pc, loc, io, cancelled, result >>
  /\ \E copied \in proc.last..(SizeOf(req.tree, video) + MaxOver) :
       LET size == SizeOf(req.tree, video)
           e == IF Multi
                THEN OffsetEvent(copied, size, loc.totalBytes, loc.bytesCopied,
                                 loc.i, Len(loc.videos))
                ELSE SingleEvent(req.version, copied, RsyncPct(copied, size), loc.totalBytes)
       IN /\ running' = { [proc EXCEPT !.lines = @ + 1, !.last = copied] }
          /\ IF req.sink
             THEN /\ chan' = TrySend(chan, e)
                  /\ emitted' = Append(emitted, Emission(e, Len(chan) < SinkCap))
             ELSE UNCHANGED << chan, emitted >>

\* a copy that takes every exit of the process for a success
WaitIgnoringStatus(ok, text) == [err |-> FALSE, text |-> FALSE]

\* the error of "if err := cmd.Wait(); err != nil": [err, text], text when
\* the captured standard error is attached to it
Wait(ok, text) == [err |-> ~ ok, text |-> ~ ok /\ text]

\* cmd.Wait() of the video copy returns: a non-zero exit fails the move
CopyExit ==
  /\ pc = "copying"
  /\ UNCHANGED << call, ui, req, fs, chan, emitted, cancelled >>
  /\ \E ok \in BOOLEAN, text \in BOOLEAN :
       /\ proc.killed => ~ ok
       /\ ok => ~ text
       /\ running' = {}
       /\ io' = Append(io, [op |-> "exit", kind |-> "video", cmd |-> proc.cmd,
                            ok |-> ok, text |-> text])
       /\ IF Wait(ok, text).err THEN Return(Failure(Wait(ok, text).text)) /\ UNCHANGED loc
          ELSE /\ pc' = "subs"
               /\ UNCHANGED result
               /\ loc' = [loc EXCEPT
                    !.bytesCopied = IF Multi THEN @ + SizeOf(req.tree, video) ELSE @,
                    !.k = 1,
                    !.subs = IF Multi
                             THEN FindSubtitlesForVideo(req.tree, fs, sourceDir, video)
                             ELSE IF req.version = "legacy"
                             THEN FindSubtitles(req.tree, fs, sourcePath)
                             ELSE @]

\* rsyncFile starts the copy of the next subtitle (exec.Command, no context)
SubStart ==
  /\ pc = "subs"
  /\ loc.k <= Len(loc.subs)
  /\ UNCHANGED << call, ui, req, fs, loc, chan, emitted, cancelled, result >>
  /\ LET sub == loc.subs[loc.k]
         cmd == RsyncCommand(req.UseSudo, sub, Join(loc.destDir, Base(sub)))
     IN /\ running' = running \cup { [kind |-> "sub", cmd |-> cmd, ctx |-> FALSE,
                                      signalled |-> FALSE, killed |-> FALSE,
                                      lines |-> 0, last |-> 0] }
        /\ io' = Append(io, [op |-> "start", kind |-> "sub", cmd |-> cmd])
  /\ pc' = "subcopy"

\* a move that takes a failed subtitle copy for its own failure
SubErrorFatal(ok) == ~ ok

\* "_ = m.rsyncFile(sub, subDest)": the error of the subtitle copy that the
\* move acts on, which is none
SubError(ok) == FALSE

\* cmd.Run() of the subtitle copy returns; its error is dropped
SubExit ==
  /\ pc = "subcopy"
  /\ UNCHANGED << call, ui, req, fs, chan, emitted, cancelled >>
  /\ running' = {}
  /\ \E ok \in BOOLEAN :
       /\ io' = Append(io, [op |-> "exit", kind |-> "sub", cmd |-> proc.cmd,
                            ok |-> ok, text |-> FALSE])
       /\ IF SubError(ok) THEN Return(Failure(FALSE)) /\ UNCHANGED loc
          ELSE /\ loc' = [loc EXCEPT !.k = @ + 1,
                                     !.movedSubs = IF Multi THEN Append(@, loc.subs[loc.k]) ELSE @]
               /\ pc' = "subs"
               /\ UNCHANGED result

\* the subtitles of the video are done
SubsDone ==
  /\ pc = "subs"
  /\ loc.k > Len(loc.subs)
  /\ pc' = IF Multi THEN "between" ELSE "finish"
  /\ UNCHANGED << call, ui, req, fs, loc, running, chan, emitted, io, cancelled, result >>

\* moveTV's progress update between files: progress <- MoveProgress{...},
\* a send that waits for room in the channel
Between ==
  /\ pc = "between"
  /\ UNCHANGED << call, ui, req, fs, running, io, cancelled, result >>
  /\ IF req.sink THEN
       LET e == BetweenEvent(loc.bytesCopied, loc.totalBytes, loc.i, Len(loc.videos)) IN
       /\ Len(chan) < SinkCap
       /\ chan' = Append(chan, e)
       /\ emitted' = Append(emitted, Emission(e, TRUE))
     ELSE UNCHANGED << chan, emitted >>
  /\ IF loc.i < Len(loc.videos)
     THEN loc' = [loc EXCEPT !.i = @ + 1] /\ pc' = "mkdir"
     ELSE UNCHANGED loc /\ pc' = "finish"

\* the names os.ReadDir(dir) lists: the existing entries right below dir
ReadDir(fsNow, dir) ==
  WalkOrder({ p \in fsNow : Below(dir, p) /\ Count(Rel(dir, p), "/") = 0 })

RECURSIVE BaseNames(_)
BaseNames(ps) == IF ps = << >> THEN {} ELSE { Base(Head(ps)) } \cup BaseNames(Tail(ps))

RECURSIVE NotMoved(_, _)
NotMoved(entries, moved) ==
  IF entries = << >> THEN << >>
  ELSE IF Base(Head(entries)) \in moved THEN NotMoved(Tail(entries), moved)
  ELSE << Base(Head(entries)) >> \o NotMoved(Tail(entries), moved)

\* a listing that leaves the moved files in: every name in the source directory
findRemainingFilesAll(tree, fsNow, dir, videos, subtitles) ==
  IF dir \notin fsNow \/ ~ IsDir(tree, dir) THEN << >>
  ELSE NotMoved(ReadDir(fsNow, dir), {})

\* findRemainingFilesMulti (findRemainingFiles is the case of one video):
\* the names in the source directory that are no base name of a moved file
findRemainingFilesMulti(tree, fsNow, dir, videos, subtitles) ==
  IF dir \notin fsNow \/ ~ IsDir(tree, dir) THEN << >>
  ELSE NotMoved(ReadDir(fsNow, dir), BaseNames(videos) \cup BaseNames(subtitles))

\* cleanupSource: the source paths that exist after it
cleanupSource(fsNow, tree, basePath, mainVideo, subtitles) ==
  LET left == fsNow \ ({ mainVideo } \cup { subtitles[k] : k \in 1..Len(subtitles) })
  IN IF basePath \in left /\ IsDir(tree, basePath) /\ ReadDir(left, basePath) = << >>
     THEN left \ { basePath } ELSE left

\* a cleanup that does not look at the request's cleanup flag
SourceAfterMoveAlways(cleanup, fsNow, tree, basePath, mainVideo, subtitles) ==
  cleanupSource(fsNow, tree, basePath, mainVideo, subtitles)

\* "if cleanup { m.cleanupSource(...) }" of the earlier move
SourceAfterMove(cleanup, fsNow, tree, basePath, mainVideo, subtitles) ==
  IF cleanup THEN cleanupSource(fsNow, tree, basePath, mainVideo, subtitles) ELSE fsNow

\* CleanupSourceDir: os.Remove of a file, os.RemoveAll of a directory; the
\* entries that exist afterwards
CleanupSourceDir(tree, fsNow, dir) ==
  IF dir \notin fsNow THEN fsNow
  ELSE IF ~ IsDir(tree, dir) THEN fsNow \ { dir }
  ELSE { p \in fsNow : p /= dir /\ ~ Below(dir, p) }

\* the end of the move: the source is cleaned up (earlier move) or the
\* entries left in it are listed (move.go), and the MoveResult is returned
Finish ==
  /\ pc = "finish"
  /\ UNCHANGED << call, ui, req, loc, running, chan, emitted, io, cancelled >>
  /\ IF req.version = "legacy" THEN
       /\ fs' = SourceAfterMove(req.cleanup, fs, req.tree, sourcePath, loc.videos[1], loc.subs)
       /\ Return([err |-> FALSE, stderr |-> FALSE,
                  res |-> << [SourcePath |-> loc.videos[1], DestinationPath |-> loc.destFile,
                              MediaType |-> req.Type, BytesMoved |-> loc.totalBytes,
                              Success |-> TRUE] >>])
     ELSE
       LET remaining ==
             IF req.cleanup /\ sourceIsDir
             THEN findRemainingFilesMulti(req.tree, fs, sourceDir, loc.videos,
                                          IF Multi THEN loc.movedSubs ELSE loc.subs)
             ELSE << >>
       IN /\ fs' = fs
          /\ Return([err |-> FALSE, stderr |-> FALSE,
                     res |-> << [SourcePath |-> loc.videos[1],
                                 DestinationPath |-> IF Multi THEN loc.destDir ELSE loc.destFile,
                                 MediaType |-> req.Type, BytesMoved |-> loc.totalBytes,
                                 FilesMoved |-> Len(loc.videos), Success |-> TRUE,
                                 RemainingFiles |-> remaining, SourceDir |-> sourceDir] >>])

\* the caller cancels the context: exec.CommandContext kills the child it
\* started; a child started by exec.Command is not tied to the context
Cancel ==
  /\ pc \notin { "done", "panic" }
  /\ ~ cancelled
  /\ cancelled' = TRUE
  /\ running' = { [p EXCEPT !.signalled = TRUE, !.killed = p.ctx] : p \in running }
  /\ UNCHANGED << call, ui, req, fs, pc, loc, chan, emitted, io, result >>

\* the consumer takes one event from the channel
Consume ==
  /\ pc \notin { "done", "panic" }
  /\ chan /= << >>
  /\ chan' = Tail(chan)
  /\ UNCHANGED << call, ui, req, fs, pc, loc, running, emitted, io, cancelled, result >>

Next ==
  \/ Begin
  \/ Mkdir
  \/ StartCopy
  \/ ProgressLine
  \/ CopyExit
  \/ SubStart
  \/ SubExit
  \/ SubsDone
  \/ Between
  \/ Finish
  \/ Cancel
  \/ Consume

Spec == Init /\ [][Next]_vars

(***************************************************************************)
(* A TV move of move.go while something else (the torrent client, the     *)
(* user) deletes videos of the source that the move has found.             *)
(***************************************************************************)
InitGone ==
  /\ Init
  /\ req.version = "current" /\ req.Type = "TV" /\ PlainlyNamed(req)

\* a video the move has found is deleted before the move has ended
Vanish ==
  /\ pc \notin { "start", "done", "panic" }
  /\ \E v \in 1..Len(loc.videos) :
       /\ loc.videos[v] \in fs
       /\ fs' = fs \ { loc.videos[v] }
  /\ UNCHANGED << call, ui, req, pc, loc, running, chan, emitted, io, cancelled, result >>

NextGone == Next \/ Vanish

SpecGone == InitGone /\ [][NextGone]_vars

(***************************************************************************)
(* The move dialog of the terminal front end.  ui.flights counts the move  *)
(* commands whose goroutine runs, ui.msgs holds the moveCompleteMsg (its   *)
(* err) of those that returned and are not yet handled by Update, and      *)
(* ui.completed is len(m.completed).                                       *)
(***************************************************************************)
Keys == { "ctrl+c", "q", "enter", "esc", "m", "t", "i", "c", "alt+1", "alt+2", "alt+3", "x" }

\* startMoveOperation: the flag is set and the command that runs the move is
\* handed to the runtime
startMoveOperation(m) ==
  [m EXCEPT !.moveInProgress = TRUE, !.moveError = FALSE,
            !.flights = @ + 1, !.started = @ + 1]

\* a dialog that takes keys while a move runs
MoveLockedNever(m) == FALSE

\* "if m.moveInProgress { return m, handled() }"
MoveLocked(m) == m.moveInProgress

\* handleMoveModalKey
handleMoveModalKey(m, key) ==
  IF m.moveEditing THEN
    IF key \in { "esc", "enter" } THEN [m EXCEPT !.moveEditing = FALSE] ELSE m
  ELSE IF MoveLocked(m) THEN m
  ELSE CASE key \in { "esc", "m" } -> [m EXCEPT !.showMoveModal = FALSE]
         [] key = "t" ->
              [m EXCEPT !.moveMediaType = IF @ = "Movie" THEN "TV" ELSE "Movie"]
         [] key = "i" -> [m EXCEPT !.moveEditing = TRUE]
         [] key = "c" -> [m EXCEPT !.moveCleanup = ~ @]
         [] key = "enter" -> startMoveOperation(m)
         [] OTHER -> m

\* openMoveModal: libsOk, the library paths are configured and exist;
\* detected, the media kind DetectFromPath gives (Unknown counts as Movie)
openMoveModal(m, libsOk, detected) ==
  IF ~ libsOk \/ m.completed = 0 THEN m
  ELSE [m EXCEPT !.showMoveModal = TRUE, !.moveMediaType = detected, !.moveCleanup = TRUE,
                 !.moveError = FALSE, !.moveInProgress = FALSE]

\* handleKeyPress: typing, the search input has the focus
handleKeyPress(m, key, typing, libsOk, detected) ==
  IF key = "ctrl+c" THEN [m EXCEPT !.quit = TRUE]
  ELSE IF m.confirmingQuit THEN
    IF key \in { "q", "enter" } THEN [m EXCEPT !.quit = TRUE]
    ELSE [m EXCEPT !.confirmingQuit = FALSE]
  ELSE IF m.showMoveModal THEN handleMoveModalKey(m, key)
  ELSE IF key = "alt+1" THEN [m EXCEPT !.activeTab = "search"]
  ELSE IF key = "alt+2" THEN [m EXCEPT !.activeTab = "downloads"]
  ELSE IF key = "alt+3" THEN [m EXCEPT !.activeTab = "completed"]
  ELSE IF typing THEN m
  ELSE IF key = "q" THEN [m EXCEPT !.confirmingQuit = TRUE]
  ELSE IF key = "m" THEN
    IF m.activeTab = "completed" /\ m.completed > 0
      THEN openMoveModal(m, libsOk, detected) ELSE m
  ELSE m

\* the move engine, which the dialog's specification leaves at rest
EngineIdle ==
  /\ req = [version |-> "current", tree |-> TreeFile, Type |-> "Movie", Title |-> << "a" >>,
            Year |-> 1999, Season |-> 0, cleanup |-> FALSE, UseSudo |-> FALSE, sink |-> FALSE]
  /\ fs = InitialFs(TreeFile)
  /\ pc = "start"
  /\ loc = [videos |-> << >>, i |-> 0, totalBytes |-> 0, bytesCopied |-> 0,
            destDir |-> << >>, destFile |-> << >>, subs |-> << >>, k |-> 0,
            movedSubs |-> << >>]
  /\ running = {}
  /\ chan = << >>
  /\ emitted = << >>
  /\ io = << >>
  /\ cancelled = FALSE
  /\ result = NoResult

engine == << req, fs, pc, loc, running, chan, emitted, io, cancelled, result >>

InitTui == EngineIdle /\ ui = UiInit /\ call = NoCall

\* Update(tea.KeyMsg)
KeyPress ==
  /\ ~ ui.quit
  /\ \E key \in Keys, typing \in BOOLEAN, libsOk \in BOOLEAN, detected \in { "Movie", "TV" } :
       /\ ui' = handleKeyPress(ui, key, typing, libsOk, detected)
       /\ ui'.started <= MaxMoves
  /\ UNCHANGED << call, engine >>

\* the goroutine of a move command returns: MoveToLibraryWithProgress has
\* ended and its moveCompleteMsg is handed to the runtime
MoveCommandReturns ==
  /\ ~ ui.quit
  /\ ui.flights > 0
  /\ \E err \in BOOLEAN :
       ui' = [ui EXCEPT !.flights = @ - 1, !.msgs = Append(@, err)]
  /\ UNCHANGED << call, engine >>

\* Update(moveCompleteMsg): a move that succeeded refreshes the torrent list
\* with a fetchTorrents that does not look at isFetching
UpdateMoveComplete ==
  /\ ~ ui.quit
  /\ ui.msgs /= << >>
  /\ ui' = IF Head(ui.msgs)
           THEN [ui EXCEPT !.msgs = Tail(@), !.moveInProgress = FALSE, !.moveError = TRUE]
           ELSE [ui EXCEPT !.msgs = Tail(@), !.moveInProgress = FALSE,
                           !.showMoveModal = FALSE, !.fetching = @ + 1]
  /\ ui'.fetching <= MaxFetches
  /\ UNCHANGED << call, engine >>

\* Update(torrentListMsg): the guard is cleared, and the list of completed
\* downloads is refreshed when the fetch had no error
UpdateTorrentList ==
  /\ ~ ui.quit
  /\ ui.fetching > 0
  /\ \E err \in BOOLEAN, n \in 0..1 :
       /\ err => n = ui.completed
       /\ ui' = [ui EXCEPT !.isFetching = FALSE, !.fetching = @ - 1, !.completed = n]
  /\ UNCHANGED << call, engine >>

\* case tickMsg: a fetch is started, and the guard set, unless the guard is set
tick(m) ==
  IF ~ m.isFetching THEN [m EXCEPT !.isFetching = TRUE, !.fetching = @ + 1] ELSE m

\* Update(tickMsg); tickCmd schedules the next tick every time
UpdateTick ==
  /\ ~ ui.quit
  /\ ui' = tick(ui)
  /\ ui'.fetching <= MaxFetches
  /\ UNCHANGED << call, engine >>

\* Update(torrentActionMsg): the list is refreshed after an action on a
\* torrent, with a fetchTorrents that does not look at isFetching
UpdateTorrentAction ==
  /\ ~ ui.quit
  /\ ui.fetching < MaxFetches
  /\ ui' = [ui EXCEPT !.fetching = @ + 1]
  /\ UNCHANGED << call, engine >>

NextTui ==
  \/ KeyPress
  \/ MoveCommandReturns
  \/ UpdateMoveComplete
  \/ UpdateTorrentList
  \/ UpdateTick
  \/ UpdateTorrentAction

SpecTui == InitTui /\ [][NextTui]_vars

(***************************************************************************)
(* The functions of the package called on their own.  The arguments are    *)
(* drawn at the start, a call of a function puts what it returns into      *)
(* call.out.  The move engine and the front end stay at rest.              *)
(***************************************************************************)
\* the sequences over S of length at most n
SeqsUpTo(S, n) == UNION { [1..k -> S] : k \in 0..n }

\* the characters of the names handed to SanitizeFilename
NameChars == { "/", "\\", ":", "*", "?", "\"", "<", ">", "|", " ", ".", "a" }

NameInputs == { [kind |-> "name", name |-> n] : n \in SeqsUpTo(NameChars, MaxLen) }

\* the components a candidate path is made of below its root
PathComponents ==
  { << ".", "." >>, << "a" >>, << "b" >>, << "e", "t", "c" >>,
    << "p", "a", "s", "s", "w", "d" >>, << "m", "a" >> }

PathInputs ==
  { [kind |-> "paths", base |-> b, path |-> b \o << "/" >> \o JoinParts(c)] :
      b \in { MovieLibraryPath, TVLibraryPath },
      c \in SeqsUpTo(PathComponents, MaxParts) \ { << >> } }
  \cup
  \* the root itself, and a directory next to the root whose name begins with
  \* the root's name
  { [kind |-> "paths", base |-> b, path |-> b \o c] :
      b \in { MovieLibraryPath, TVLibraryPath },
      c \in { << >>, << "2" >>, << "2", "/", "a" >> } }

\* the file names handed to Detect: a lead, two markers with or without a dot
\* between them, an extension
Leads == { << >>, << "a" >>, << "a", "." >>, << "(" >> }

Marks ==
  { << >>, << "S", "1", "E", "1" >>, << "s", "0", "1", "e", "0", "2" >>,
    << "S", "1", "2", "E", "3" >>, << "S", "1", "E", "1", "2" >>,
    << "1", "x", "0", "2" >>, << "1", "9", "9", "9" >>, << "2", "0", "1", "2" >> }

Exts == { << >>, << ".", "m", "k", "v" >> }

FileInputs ==
  { [kind |-> "file", name |-> l \o m \o d \o n \o e] :
      l \in Leads, m \in Marks, d \in { << >>, << "." >> }, n \in Marks, e \in Exts }

\* the names of the directories and files of the paths handed to DetectFromPath
PathNames ==
  { << "a" >>, << "b", ".", "m", "k", "v" >>,
    << "a", " ", "S", "1", "E", "1" >>, << "a", ".", "S", "1", "E", "1", ".", "m", "k", "v" >>,
    << "a", " ", "1", "9", "9", "9" >>, << "a", ".", "1", "9", "9", "9", ".", "m", "k", "v" >> }

FilePathInputs ==
  { [kind |-> "path", path |-> << "/", "d", "/" >> \o d \o << "/" >> \o f] :
      d \in PathNames, f \in PathNames }

\* the download directories the locator functions are called on
LibTrees == Trees \cup { TreeShow, TreeLevels }

\* a path that does not exist
Missing == << "/", "d", "/", "0" >>

\* every path of the download directories
AllPaths == UNION { InitialFs(u) : u \in LibTrees }

FindInputs ==
  { i \in [kind : { "find" }, tree : LibTrees, path : AllPaths \cup { Missing }] :
      i.path \in InitialFs(i.tree) \cup { Missing } }

SubsInputs ==
  { i \in [kind : { "subs" }, tree : LibTrees, baseDir : AllPaths, video : AllPaths] :
      /\ i.baseDir \in TreeDirs(i.tree)
      /\ IsFile(i.tree, i.video) /\ IsVideoName(i.video) }

LibInputs ==
  NameInputs \cup PathInputs \cup FileInputs \cup FilePathInputs \cup FindInputs \cup SubsInputs

Input(i) == [fn |-> "input", in |-> i, out |-> << >>]

InitLib ==
  /\ EngineIdle
  /\ ui = UiInit
  /\ call \in { Input(i) : i \in LibInputs }

Called(kind) == call.fn = "input" /\ call.in.kind = kind

\* err := ValidatePath(path, allowedBase)
CallValidatePath ==
  /\ Called("paths")
  /\ call' = [call EXCEPT !.fn = "ValidatePath",
                          !.out = [err |-> ~ ValidatePath(call.in.path, call.in.base)]]
  /\ UNCHANGED << engine, ui >>

\* s := SanitizeFilename(name)
CallSanitizeFilename ==
  /\ Called("name")
  /\ call' = [call EXCEPT !.fn = "SanitizeFilename",
                          !.out = [value |-> SanitizeFilename(call.in.name),
                                   arg |-> call.in.name, n |-> 1]]
  /\ UNCHANGED << engine, ui >>

\* s = SanitizeFilename(s): the function applied to what it returned
CallSanitizeFilenameAgain ==
  /\ call.fn = "SanitizeFilename"
  /\ call.out.n = 1
  /\ call' = [call EXCEPT !.out = [value |-> SanitizeFilename(call.out.value),
                                   arg |-> call.out.value, n |-> 2]]
  /\ UNCHANGED << engine, ui >>

\* result, err := Detect(filename)
CallDetect ==
  /\ Called("file")
  /\ call' = [call EXCEPT !.fn = "Detect", !.out = Detect(call.in.name)]
  /\ UNCHANGED << engine, ui >>

\* result, err := DetectFromPath(path)
CallDetectFromPath ==
  /\ Called("path")
  /\ call' = [call EXCEPT !.fn = "DetectFromPath", !.out = DetectFromPath(call.in.path)]
  /\ UNCHANGED << engine, ui >>

\* video, err := FindMainVideo(path)
CallFindMainVideo ==
  /\ Called("find")
  /\ call' = [call EXCEPT !.fn = "FindMainVideo",
                          !.out = FindMainVideo(call.in.tree, InitialFs(call.in.tree), call.in.path)]
  /\ UNCHANGED << engine, ui >>

\* videos, err := FindAllVideos(path)
CallFindAllVideos ==
  /\ Called("find")
  /\ call' = [call EXCEPT !.fn = "FindAllVideos",
                          !.out = FindAllVideos(call.in.tree, InitialFs(call.in.tree), call.in.path)]
  /\ UNCHANGED << engine, ui >>

\* subs := FindSubtitlesForVideo(baseDir, videoPath)
CallFindSubtitlesForVideo ==
  /\ Called("subs")
  /\ call' = [call EXCEPT !.fn = "FindSubtitlesForVideo",
                          !.out = FindSubtitlesForVideo(call.in.tree, InitialFs(call.in.tree),
                                                        call.in.baseDir, call.in.video)]
  /\ UNCHANGED << engine, ui >>

NextLib ==
  \/ CallFindMainVideo
  \/ CallFindAllVideos
  \/ CallFindSubtitlesForVideo
  \/ CallValidatePath
  \/ CallSanitizeFilename
  \/ CallSanitizeFilenameAgain
  \/ CallDetect
  \/ CallDetectFromPath

SpecLib == InitLib /\ [][NextLib]_vars

(***************************************************************************)
(* Properties.                                                             *)
(***************************************************************************)
\* path lies strictly inside root: its cleaned components extend root's
StrictlyInside(path, root) ==
  LET pp == PathParts(path)
      rp == PathParts(root)
  IN Len(pp) > Len(rp) /\ SubSeq(pp, 1, Len(rp)) = rp

LibraryRoot(type) == IF type = "Movie" THEN MovieLibraryPath ELSE TVLibraryPath

IsVideoStart(e) == e.op = "start" /\ e.kind = "video"

IsVideoExit(e) == e.op = "exit" /\ e.kind = "video"

Succeeded == pc = "done" /\ result.res /= << >>

\* C1: the destination of every video copy a move starts, hence every
\* destination a successful move has written a video to, lies strictly inside
\* the library root of the move's media kind, whatever the title is.
C1_DestinationsInsideRoot ==
  \A k \in 1..Len(io) :
    IsVideoStart(io[k]) => StrictlyInside(io[k].cmd.dst, LibraryRoot(req.Type))

\* a successful move whose title is "../b"
C1_Witness ==
  /\ Succeeded
  /\ req.Title = << ".", ".", "/", "b" >>
  /\ \E k \in 1..Len(io) : IsVideoStart(io[k])

\* the destination a directory creation or a process start writes to
Written(e) == IF e.op = "start" THEN e.cmd.dst ELSE e.path

\* C2: every directory creation and every start of a copy process is preceded
\* by a ValidatePath of its destination against the library root.
C2_ValidatedBeforeWrite ==
  \A k \in 1..Len(io) :
    io[k].op \in {"mkdir", "sudo mkdir", "start"} =>
      \E j \in 1..(k - 1) : io[j].op = "validate" /\ io[j].path = Written(io[k])

\* C3: the move never stands at a send to the progress channel that has to
\* wait for the consumer.
C3_NeverWaitsOnSink ==
  ~ (pc = "between" /\ req.sink /\ Len(chan) >= SinkCap)

\* every video of the move has been copied by a process that exited with zero
AllVideosCopied ==
  /\ loc.videos /= << >>
  /\ \A v \in 1..Len(loc.videos) :
       \E k \in 1..Len(io) : IsVideoExit(io[k]) /\ io[k].ok /\ io[k].cmd.src = loc.videos[v]

\* C4: the source is changed only when cleanup was requested and every video
\* has been copied successfully; a move that returned an error has left the
\* source as it was.
C4_NoRemovalUnlessCleanupAfterSuccess ==
  /\ fs /= InitialFs(req.tree) => req.cleanup /\ AllVideosCopied
  /\ result.err => fs = InitialFs(req.tree)

\* a move has removed its source directory
C4_Witness == pc = "done" /\ sourceIsDir /\ sourcePath \notin fs

\* the subtitles the move copied along with its videos
CopiedSubs == IF Multi THEN loc.movedSubs ELSE loc.subs

\* C5: when a move with cleanup requested returns its MoveResult, the moved
\* videos and their subtitles are gone from the source, and so is the source
\* directory when it has become empty.
C5_CleanupRemovesMoved ==
  (Succeeded /\ req.cleanup) =>
    /\ \A v \in 1..Len(loc.videos) : loc.videos[v] \notin fs
    /\ \A k \in 1..Len(CopiedSubs) : CopiedSubs[k] \notin fs
    /\ (sourceIsDir /\ ReadDir(fs, sourcePath) = << >>) => sourcePath \notin fs

\* C6: a video copy that exits non-zero or cannot be started ends the move
\* with an error and no MoveResult, the captured standard error attached when
\* there is any, and no process is started after it; a MoveResult is returned
\* only if the copy of every video exited with zero.
C6_FailedCopyFailsMove ==
  /\ \A k \in 1..Len(io) :
       (io[k].op = "nostart" \/ (IsVideoExit(io[k]) /\ ~ io[k].ok)) =>
         /\ k = Len(io)
         /\ pc = "done" /\ result.err /\ result.res = << >>
         /\ result.stderr = (io[k].op = "exit" /\ io[k].text)
  /\ Succeeded => AllVideosCopied

\* the first copy of a move of several videos has failed with text on its
\* standard error
C6_Witness ==
  /\ Multi /\ Len(loc.videos) > 1 /\ loc.i = 1
  /\ io /= << >>
  /\ IsVideoExit(io[Len(io)]) /\ ~ io[Len(io)].ok /\ io[Len(io)].text
  /\ result.stderr

\* C7: a child process that runs when the context is cancelled is terminated,
\* and a move whose context was cancelled before it returned returns an error
\* and no MoveResult.
C7_CancelFailsMove ==
  /\ \A p \in running : p.signalled => p.killed
  /\ (pc = "done" /\ cancelled) => (result.err /\ result.res = << >>)

\* C8: in a move of several videos the copy processes of the videos are
\* started in ascending order of the video paths, each after the one before
\* it has exited with zero, and no two processes of the move run at a time.
C8_SequentialInOrder ==
  Multi =>
    /\ Cardinality(running) <= 1
    /\ \A k \in 1..Len(io) :
         io[k].op = "start" =>
           Cardinality({ j \in 1..(k - 1) : io[j].op = "start" })
             = Cardinality({ j \in 1..(k - 1) : io[j].op = "exit" })
    /\ \A j, k \in 1..Len(io) :
         (j < k /\ IsVideoStart(io[j]) /\ IsVideoStart(io[k])) =>
           /\ StrLess(io[j].cmd.src, io[k].cmd.src)
           /\ \E h \in (j + 1)..(k - 1) :
                IsVideoExit(io[h]) /\ io[h].ok /\ io[h].cmd = io[j].cmd

\* both videos of /d/q, whose walk order is not their sorted order, are copied
C8_Witness ==
  /\ Multi /\ req.tree = TreeDeep /\ Succeeded
  /\ Cardinality({ k \in 1..Len(io) : IsVideoStart(io[k]) }) = 2

\* C9: the overall fractions a move emits never decrease (the byte counts a
\* copy process reports never decrease in this model and may exceed the size
\* of the file).
C9_OverallFractionMonotone ==
  \A j, k \in 1..Len(emitted) :
    (j < k /\ ~ IsNaN(emitted[j].Percentage) /\ ~ IsNaN(emitted[k].Percentage)) =>
      FracLE(emitted[j].Percentage, emitted[k].Percentage)

\* C10: every event of a move of move.go has its overall fraction and its
\* file fraction in [0,1] and no more bytes copied than there are in total.
C10_EventsInRange ==
  req.version = "current" =>
    \A k \in 1..Len(emitted) :
      /\ InUnit(emitted[k].Percentage)
      /\ InUnit(emitted[k].EpisodeProgress)
      /\ emitted[k].BytesCopied <= emitted[k].TotalBytes

\* the entries RemainingFiles names, and the paths of the files the move copied
Remaining == result.res[1].RemainingFiles

MovedPaths ==
  { loc.videos[v] : v \in 1..Len(loc.videos) } \cup { CopiedSubs[k] : k \in 1..Len(CopiedSubs) }

ListsRemaining == Succeeded /\ req.version = "current" /\ req.cleanup /\ sourceIsDir

\* right below the source directory
TopLevel(p) == Below(sourcePath, p) /\ Count(Rel(sourcePath, p), "/") = 0

\* C11: the RemainingFiles of a successful move with cleanup of a directory
\* source names no moved video and no subtitle copied with one.
C11_RemainingExcludesMoved ==
  ListsRemaining =>
    \A k \in 1..Len(Remaining) : Join(sourceDir, Remaining[k]) \notin MovedPaths

\* a move of a directory's top-level video that lists entries left behind
C11_Witness ==
  /\ ListsRemaining
  /\ Remaining /= << >>
  /\ \E p \in MovedPaths : TopLevel(p)

\* C12: a move removes no source entry other than the files it moved, and
\* after a successful move with cleanup of a directory source every top-level
\* entry that is no moved file still exists and is named in RemainingFiles.
C12_LeftoversKeptAndListed ==
  /\ \A p \in InitialFs(req.tree) \ fs : p \in MovedPaths \cup { sourcePath }
  /\ ListsRemaining =>
       \A p \in InitialFs(req.tree) :
         (TopLevel(p) /\ p \notin MovedPaths) =>
           /\ p \in fs
           /\ \E k \in 1..Len(Remaining) : Remaining[k] = Base(p)

IsSubExit(e) == e.op = "exit" /\ e.kind = "sub"

\* C13: a move whose video copies all exited with zero returns a MoveResult
\* whatever its subtitle copies did, and a subtitle copy that failed is never
\* what ends a move.
C13_SubtitleFailureNotFatal ==
  /\ (pc = "done" /\ AllVideosCopied) => Succeeded
  /\ (io /= << >> /\ IsSubExit(io[Len(io)]) /\ ~ io[Len(io)].ok) => ~ result.err

\* a pack's subtitle copy has failed, the next video has been copied all the
\* same and the move has succeeded
C13_Witness ==
  /\ Succeeded
  /\ \E j, k \in 1..Len(io) :
       j < k /\ IsSubExit(io[j]) /\ ~ io[j].ok /\ IsVideoStart(io[k])

\* C14: a move with an empty title or an Unknown media kind creates no
\* directory and starts no process, and returns an error.
C14_NamingErrorsBeforeIO ==
  (req.Title = << >> \/ req.Type = "Unknown") =>
    /\ io = << >>
    /\ pc = "done" => (result.err /\ result.res = << >>)

\* a TV move of a pack has found its videos and failed on the empty title
C14_Witness ==
  /\ pc = "done" /\ result.err
  /\ Multi /\ req.Title = << >> /\ req.tree = TreePack
  /\ io = << >>

\* the file name of path carries a season marker: one of the TV patterns matches
HasSeasonMarker(path) ==
  LET name == Base(path) IN detectTV(TrimSuffix(name, Ext(name))).ok

\* C15: every video of a TV move goes to the Season directory of the season
\* in its own file name, and to that of the caller's season only when its name
\* carries no season marker.
C15_OwnSeasonAuthoritative ==
  Multi =>
    \A k \in 1..Len(io) :
      IsVideoStart(io[k]) =>
        LET v == io[k].cmd.src
            s == IF HasSeasonMarker(v) THEN DetectSeason(v) ELSE req.Season
        IN io[k].cmd.dst = Join(Join(TVLibraryPath, FormatTVPath(req.Title, s).path), Base(v))

\* the fraction is 1.0
IsOne(f) == f.den > 0 /\ f.num = f.den

\* C16: the move of the pack /d/n (two episodes of season 1) with the show
\* title "Show" copies both videos into <TV root>/Show/Season 01, reports two
\* files moved, and the overall fractions the channel takes never decrease
\* and are 1.0 exactly once.
C16_SeasonPackEndToEnd ==
  (Succeeded /\ Multi /\ req.tree = TreeSeason /\ req.sink
     /\ req.Title = << "S", "h", "o", "w" >>) =>
    /\ \A k \in 1..Len(io) :
         IsVideoStart(io[k]) =>
           Dir(io[k].cmd.dst)
             = TVLibraryPath \o << "/", "S", "h", "o", "w", "/",
                                   "S", "e", "a", "s", "o", "n", " ", "0", "1" >>
    /\ Cardinality({ k \in 1..Len(io) : IsVideoStart(io[k]) }) = 2
    /\ result.res[1].FilesMoved = 2
    /\ \A j, k \in 1..Len(emitted) :
         (j < k /\ emitted[j].sent /\ emitted[k].sent) =>
           FracLE(emitted[j].Percentage, emitted[k].Percentage)
    /\ Cardinality({ k \in 1..Len(emitted) :
                       emitted[k].sent /\ IsOne(emitted[k].Percentage) }) = 1

\* the bytes of the videos up to and including the i-th of the move
BytesThrough(i) == SumSizes(req.tree, SubSeq(loc.videos, 1, i))

\* C17: in a move of move.go no event of a progress line carries more bytes
\* than the files before the current one and the whole current file have, nor
\* a fraction above 1, in the single-file and in the multi-file copy.
C17_LineValuesClamped ==
  req.version = "current" =>
    \A k \in 1..Len(emitted) :
      IF Multi
        THEN /\ emitted[k].BytesCopied <= BytesThrough(emitted[k].EpisodeIndex)
             /\ ~ GtOne(emitted[k].EpisodeProgress)
        ELSE /\ emitted[k].BytesCopied <= emitted[k].TotalBytes
             /\ ~ GtOne(emitted[k].Percentage)

\* C18 as stated: the events of a move of one video, as a movie or as a TV
\* episode, carry the file index 0, and those of a move of several videos an
\* index from 1 to the number of videos.
C18_SingleFileIndexZero ==
  req.version = "current" =>
    \A k \in 1..Len(emitted) :
      IF Len(loc.videos) = 1 THEN emitted[k].EpisodeIndex = 0
      ELSE 1 <= emitted[k].EpisodeIndex /\ emitted[k].EpisodeIndex <= emitted[k].EpisodeTotal

\* C18, amended: the events of a TV move of move.go, of one video or of
\* several, carry the 1-based position of the video being copied and the
\* number of videos; the events of a movie move carry 0 for both.
C18_FileIndexByKind ==
  req.version = "current" =>
    \A k \in 1..Len(emitted) :
      IF Multi
        THEN /\ 1 <= emitted[k].EpisodeIndex
             /\ emitted[k].EpisodeIndex <= emitted[k].EpisodeTotal
             /\ emitted[k].EpisodeTotal = Len(loc.videos)
             /\ loc.videos[emitted[k].EpisodeIndex] = emitted[k].video
        ELSE emitted[k].EpisodeIndex = 0 /\ emitted[k].EpisodeTotal = 0

\* a progress line of a TV move of the single file /d/a.mkv has been reported
\* as episode 1 of 1
C18_Witness ==
  /\ Multi /\ req.tree = TreeFile /\ pc = "copying"
  /\ emitted /= << >>
  /\ emitted[1].EpisodeIndex = 1 /\ emitted[1].EpisodeTotal = 1

\* the moves started from the dialog whose completion Update has not handled
InFlight == ui.flights + Len(ui.msgs)

\* C19: at most one move started from the dialog is in flight, and while one
\* is, the dialog is open and locked.
C19_OneMoveInFlight ==
  /\ InFlight <= 1
  /\ InFlight = 1 => (ui.showMoveModal /\ ui.moveInProgress)

\* a second move runs, started after the first one's failure was handled
C19_Witness == ui.started = 2 /\ ui.flights = 1 /\ ~ ui.quit

\* C20: before a video is copied the move has created its destination
\* directory, by an unprivileged attempt first; sudo mkdir is invoked only right after
\* that attempt has failed and only under elevation; and a copy process is
\* started through "sudo -n" exactly when elevation is set.
C20_UnprivilegedFirst ==
  /\ \A k \in 1..Len(io) :
       IsVideoStart(io[k]) =>
         \E j \in 1..(k - 1) :
           io[j].op = "mkdir" /\ StrictlyInside(io[k].cmd.dst, io[j].path)
  /\ \A k \in 1..Len(io) :
       io[k].op = "sudo mkdir" =>
         /\ req.UseSudo
         /\ k > 1 /\ io[k - 1].op = "mkdir" /\ ~ io[k - 1].ok /\ io[k - 1].path = io[k].path
  /\ \A k \in 1..Len(io) :
       io[k].op = "start" => (io[k].cmd.program = "sudo -n rsync") = req.UseSudo

\* the components of path, cleaned, are those of root followed by none or more
AtOrBelow(path, root) ==
  LET pp == PathParts(path)
      rp == PathParts(root)
  IN Len(pp) >= Len(rp) /\ SubSeq(pp, 1, Len(rp)) = rp

HasDotDot(path) == \E k \in 1..Len(Split(path)) : Split(path)[k] = << ".", "." >>

\* C21: ValidatePath returns ErrPathEscape for a candidate that resolves
\* outside the root through ".." components, and no error for a candidate
\* beneath the root.
C21_EscapeRejected ==
  call.fn = "ValidatePath" =>
    /\ (HasDotDot(call.in.path) /\ ~ AtOrBelow(call.in.path, call.in.base)) => call.out.err
    /\ StrictlyInside(call.in.path, call.in.base) => ~ call.out.err

\* the characters SanitizeFilename has to remove
Invalid == { "/", "\\", ":", "*", "?", "\"", "<", ">", "|" }

\* C22: what SanitizeFilename returns holds none of / \ : * ? " < > |, and
\* SanitizeFilename applied to it returns it unchanged.
C22_SanitizeIdempotent ==
  call.fn = "SanitizeFilename" =>
    /\ \A k \in 1..Len(call.out.value) : call.out.value[k] \notin Invalid
    /\ call.out.n = 2 => call.out.value = call.out.arg

\* the name "a.?" has been sanitised twice: "a" both times
C22_Witness ==
  /\ call.fn = "SanitizeFilename" /\ call.out.n = 2
  /\ call.in.name = << "a", ".", "?" >>
  /\ call.out.value = << "a" >>

\* the name Detect looks at: the last element of the path without its extension
Stripped(filename) == TrimSuffix(Base(filename), Ext(Base(filename)))

HasSE(n) == \E k \in 1..Len(n), a \in 1..2, b \in 1..2 : MatchSE(n, k, a, b)

HasTVPattern(n) == HasSE(n) \/ \E k \in 1..Len(n), a \in 1..2 : MatchX(n, k, a)

HasYear(n) == \E k \in 1..Len(n) : MatchYear(n, k)

\* C23: for a file name whose extension-stripped base name holds an
\* S<1-2 digits>E<1-2 digits> marker, Detect returns TV without error, with a
\* confidence of at least 0.85 and the season and episode of a marker of the
\* name, each digit field taken as long as it is, also when the name holds a
\* year.
C23_MarkerMeansTV ==
  call.fn = "Detect" =>
    LET n == Stripped(call.in.name) IN
    HasSE(n) =>
      /\ call.out.Type = "TV" /\ ~ call.out.err
      /\ call.out.Confidence >= 85
      /\ \E k \in 1..Len(n), a \in 1..2, b \in 1..2 :
           /\ MatchSE(n, k, a, b)
           /\ (b = 1 => ~ DigitRun(n, k + 2 + a, 2))
           /\ call.out.Season = Atoi(SubSeq(n, k + 1, k + a))
           /\ call.out.Episode = Atoi(SubSeq(n, k + 2 + a, k + 1 + a + b))

\* a.S1E12.1999.mkv has been detected as episode 12 of season 1
C23_Witness ==
  /\ call.fn = "Detect"
  /\ call.in.name = << "a", ".", "S", "1", "E", "1", "2", ".", "1", "9", "9", "9", ".", "m", "k", "v" >>
  /\ call.out.Type = "TV" /\ call.out.Season = 1 /\ call.out.Episode = 12

\* C24 as stated: for a file name that holds a year of 1900..2099 and no TV
\* pattern, Detect returns Movie with a year of the name and a title that is
\* not empty.
C24_YearMeansMovie ==
  call.fn = "Detect" =>
    LET n == call.in.name IN
    (HasYear(n) /\ ~ HasTVPattern(n)) =>
      /\ call.out.Type = "Movie"
      /\ call.out.Title /= << >>
      /\ \E k \in 1..Len(n) : MatchYear(n, k) /\ call.out.Year = Atoi(SubSeq(n, k, k + 3))

\* the characters cleanTitle turns into nothing at the end of a title
TitleFiller == { ".", "_", " ", "-", "(", "[", "{" }

\* the position of the first year of n
FirstYear(n) ==
  CHOOSE k \in 1..Len(n) : MatchYear(n, k) /\ \A h \in 1..(k - 1) : ~ MatchYear(n, h)

\* C24, amended: for a file name whose extension-stripped base name holds no
\* TV pattern and a year of 1900..2099, Detect returns Movie with the first
\* such year and a title that is not empty when some character other than
\* dot, underscore, space, hyphen and opening bracket stands before that
\* year, and Unknown when none does.
C24_TitledYearMeansMovie ==
  call.fn = "Detect" =>
    LET n == Stripped(call.in.name) IN
    (HasYear(n) /\ ~ HasTVPattern(n)) =>
      IF \E j \in 1..(FirstYear(n) - 1) : n[j] \notin TitleFiller
        THEN /\ call.out.Type = "Movie" /\ ~ call.out.err
             /\ call.out.Title /= << >>
             /\ call.out.Year = Atoi(SubSeq(n, FirstYear(n), FirstYear(n) + 3))
        ELSE call.out.Type = "Unknown" /\ call.out.err

\* a.1999.2012.mkv has been detected as the movie "a" of 1999
C24_Witness ==
  /\ call.fn = "Detect"
  /\ call.in.name = << "a", ".", "1", "9", "9", "9", ".", "2", "0", "1", "2", ".", "m", "k", "v" >>
  /\ call.out.Type = "Movie" /\ call.out.Year = 1999 /\ call.out.Title = << "a" >>

\* C25: when one of the name of the innermost directory and the file name
\* is classified as Unknown and the other as TV or Movie, DetectFromPath
\* returns the classification of the other.
C25_DirectoryNameConsulted ==
  call.fn = "DetectFromPath" =>
    LET d == Detect(Base(Dir(call.in.path)))
        f == Detect(Base(call.in.path))
    IN /\ (d.Type = "Unknown" /\ f.Type /= "Unknown") => call.out = f
       /\ (f.Type = "Unknown" /\ d.Type /= "Unknown") => call.out = d

\* name ends, whatever the case of its letters, with a video extension
VideoFile(name) == \E e \in videoExtensions : HasSuffix(ToLower(name), e)

SubtitleFile(name) == HasSuffix(ToLower(name), << ".", "s", "r", "t" >>)

\* the number of levels the file p lies below the directory dir (0: not below)
LevelsBelow(dir, p) ==
  IF Below(dir, p) THEN Len(Split(p)) - Len(Split(dir)) ELSE 0

\* the files of the tree that count as the video of a directory: right below
\* it, with a video extension, no sample
MainCandidates(tree, dir) ==
  { f \in tree.files : /\ LevelsBelow(dir, f.path) = 1
                        /\ VideoFile(Base(f.path))
                        /\ ~ Contains(ToLower(Base(f.path)), Sample) }

\* C26: FindMainVideo on a directory returns a largest of the video files
\* right below it that are no samples, and an error exactly when there is
\* none; on a single file with a video extension it returns that file.
C26_LargestVideoOrNone ==
  call.fn = "FindMainVideo" =>
    LET t == call.in.tree
        p == call.in.path
    IN /\ IsDir(t, p) =>
            /\ call.out.err <=> MainCandidates(t, p) = {}
            /\ ~ call.out.err =>
                 \E f \in MainCandidates(t, p) :
                   /\ f.path = call.out.path
                   /\ \A g \in MainCandidates(t, p) : g.size <= f.size
       /\ (IsFile(t, p) /\ VideoFile(p)) => (~ call.out.err /\ call.out.path = p)

\* the video files within two levels below a directory that are no samples
PackVideos(tree, dir) ==
  { f.path : f \in { g \in tree.files : /\ LevelsBelow(dir, g.path) \in { 1, 2 }
                                         /\ VideoFile(Base(g.path))
                                         /\ ~ Contains(ToLower(Base(g.path)), Sample) } }

Range(q) == { q[k] : k \in 1..Len(q) }

Episode1 == TreeShow.source \o << "/", "S", "h", "o", "w", ".", "S", "0", "1", "E", "0", "1", ".", "m", "k", "v" >>

Episode2 == TreeShow.source \o << "/", "S", "h", "o", "w", ".", "S", "0", "1", "E", "0", "2", ".", "m", "k", "v" >>

Episode1Sub ==
  TreeShow.source \o << "/", "S", "h", "o", "w", ".", "S", "0", "1", "E", "0", "1", ".", "e", "n", ".", "s", "r", "t" >>

\* C27: FindAllVideos on a directory returns the video files one or two
\* levels below it that are no samples, each once and in ascending order of
\* their paths, and an error when there is none; for /d/r it returns the two
\* episodes and not the sample.
C27_AllVideosSorted ==
  call.fn = "FindAllVideos" =>
    LET t == call.in.tree
        p == call.in.path
    IN /\ IsDir(t, p) =>
            /\ call.out.err <=> PackVideos(t, p) = {}
            /\ Range(call.out.videos) = PackVideos(t, p)
            /\ \A j, k \in 1..Len(call.out.videos) :
                 j < k => StrLess(call.out.videos[j], call.out.videos[k])
       /\ (t = TreeShow /\ p = TreeShow.source) =>
            call.out.videos = << Episode1, Episode2 >>

\* the videos of /d/r have been listed
C27_Witness ==
  /\ call.fn = "FindAllVideos"
  /\ call.in.tree = TreeShow /\ call.in.path = TreeShow.source
  /\ Len(call.out.videos) = 2 /\ ~ call.out.err

\* C28: FindSubtitlesForVideo returns the .srt files one or two levels below
\* baseDir whose name starts, whatever the case, with the name of the video
\* without its extension, each once; in /d/r the subtitle of the first
\* episode, and nothing for the second.
C28_SubtitlesOfVideo ==
  call.fn = "FindSubtitlesForVideo" =>
    LET t == call.in.tree
        d == call.in.baseDir
        v == ToLower(Stripped(call.in.video))
    IN /\ Range(call.out)
            = { f.path : f \in { g \in t.files :
                                   /\ LevelsBelow(d, g.path) \in { 1, 2 }
                                   /\ SubtitleFile(Base(g.path))
                                   /\ HasPrefix(ToLower(Base(g.path)), v) } }
       /\ Cardinality(Range(call.out)) = Len(call.out)
       /\ (t = TreeShow /\ d = TreeShow.source /\ call.in.video = Episode1) =>
            call.out = << Episode1Sub >>
       /\ (t = TreeShow /\ d = TreeShow.source /\ call.in.video = Episode2) =>
            call.out = << >>

\* the subtitle of the first episode of /d/r has been found
C28_Witness ==
  /\ call.fn = "FindSubtitlesForVideo"
  /\ call.in.tree = TreeShow /\ call.in.baseDir = TreeShow.source
  /\ call.in.video = Episode1
  /\ call.out = << Episode1Sub >>

\* "<SanitizedTitle> (<Year>)", or "<SanitizedTitle>" when the year is unknown
MovieName ==
  IF req.Year > 0
    THEN SanitizeFilename(req.Title) \o << " ", "(" >> \o Itoa(req.Year) \o << ")" >>
    ELSE SanitizeFilename(req.Title)

\* the move of move.go returns FilesMoved = 1 (the MoveResult of the earlier
\* move has no such field)
OneFileMoved == req.version = "current" => result.res[1].FilesMoved = 1

C30_EpisodeNameKept ==
  (Succeeded /\ req.Type = "TV") =>
    /\ \A v \in 1..Len(loc.videos) :
         \E k \in 1..Len(io) : IsVideoStart(io[k]) /\ io[k].cmd.src = loc.videos[v]
    /\ \A k \in 1..Len(io) :
         IsVideoStart(io[k]) =>
           /\ Base(io[k].cmd.dst) = Base(io[k].cmd.src)
           /\ \E n \in { req.Season, DetectSeason(io[k].cmd.src) } :
                io[k].cmd.dst
                  = Clean(TVLibraryPath \o << "/" >> \o SanitizeFilename(req.Title)
                            \o << "/", "S", "e", "a", "s", "o", "n", " " >> \o Pad2(n)
                            \o << "/" >> \o Base(io[k].cmd.src))

\* the two episodes of the pack /d/s have been moved under the title "a"
C30_Witness ==
  /\ Succeeded /\ Multi /\ req.tree = TreePack /\ req.Title = << "a" >>
  /\ Cardinality({ k \in 1..Len(io) : IsVideoStart(io[k]) }) = 2

\* C31: once the context is cancelled the move returns in the end, whatever
\* the consumer of the progress channel does: a cancelled move never stands at
\* a step that only the consumer of the channel can let it leave.
C31_CancelledMoveNotHeld ==
  cancelled => ~ (pc = "between" /\ req.sink /\ Len(chan) = SinkCap)

\* C32: ValidatePath returns no error only for the root itself or a path
\* below it; a path in a directory next to the root whose name begins with the
\* root's name gets ErrPathEscape.
C32_OnlyRootOrBelow ==
  call.fn = "ValidatePath" =>
    (~ call.out.err => AtOrBelow(call.in.path, call.in.base))

\* C33: within one TV move no two different source videos are copied to the
\* same destination path.
C33_DistinctDestinations ==
  Multi =>
    \A j, k \in 1..Len(io) :
      (IsVideoStart(io[j]) /\ IsVideoStart(io[k]) /\ io[j].cmd.src /= io[k].cmd.src)
        => io[j].cmd.dst /= io[k].cmd.dst

\* C34: the SourceDir of a successful move is the moved source item or lies
\* inside it, and CleanupSourceDir of that SourceDir removes nothing but the
\* item and what is inside it.
C34_SourceDirWithinItem ==
  (Succeeded /\ req.version = "current") =>
    LET dir == result.res[1].SourceDir IN
    /\ AtOrBelow(dir, sourcePath)
    /\ \A p \in fs \ CleanupSourceDir(req.tree, fs, dir) : AtOrBelow(p, sourcePath)

\* a source file the finished move treats as moved: deleted by the cleanup, or
\* left out of the RemainingFiles that list its directory
TreatedAsMoved(p) ==
  \/ p \notin fs
  \/ /\ ListsRemaining /\ TopLevel(p)
     /\ \A k \in 1..Len(Remaining) : Remaining[k] /= Base(p)

\* C35: a successful move with cleanup treats a source file as moved only if a
\* copy process of that file exited with zero; a subtitle whose copy failed is
\* still there and still named in RemainingFiles.
C35_MovedOnlyIfCopied ==
  (Succeeded /\ req.cleanup) =>
    \A f \in req.tree.files :
      TreatedAsMoved(f.path) =>
        \E k \in 1..Len(io) : io[k].op = "exit" /\ io[k].ok /\ io[k].cmd.src = f.path

\* the copy of a video that was the last one started before operation k
AccompaniedStart(k) ==
  LET starts == { j \in 1..(k - 1) : IsVideoStart(io[j]) }
  IN io[CHOOSE j \in starts : \A h \in starts : h <= j].cmd

AccompaniedVideo(k) == AccompaniedStart(k).src

IsSubStart(e) == e.op = "start" /\ e.kind = "sub"

\* C36: in a TV move no subtitle is copied for two different videos.
C36_SubtitleOfOneVideo ==
  Multi =>
    \A j, k \in 1..Len(io) :
      (IsSubStart(io[j]) /\ IsSubStart(io[k]) /\ io[j].cmd.src = io[k].cmd.src)
        => AccompaniedVideo(j) = AccompaniedVideo(k)

\* C37: every subtitle copy writes into the directory the video it accompanies
\* was written to.
C37_SubtitleNextToVideo ==
  \A k \in 1..Len(io) :
    IsSubStart(io[k]) => Dir(io[k].cmd.dst) = Dir(AccompaniedStart(k).dst)

\* C38: a movie move copies no subtitle from outside the source item: every
\* subtitle it copies is the source or lies below it.
C38_SubtitlesFromItem ==
  (req.version = "current" /\ req.Type = "Movie") =>
    \A k \in 1..Len(io) :
      IsSubStart(io[k]) => AtOrBelow(io[k].cmd.src, sourcePath)

\* the move stands before the os.Stat of a video that no longer exists
TurnOfGoneVideo == Multi /\ pc = "spawn" /\ video \notin fs

\* C39: a TV move that comes to a video which no longer exists returns an
\* error: its next step ends the move with an error and no MoveResult.
C39_GoneVideoIsAnError ==
  [][(TurnOfGoneVideo /\ pc' /= pc) => (pc' = "done" /\ result'.err /\ result'.res = << >>)]_vars

\* C40: at most one fetch of the torrent list is in flight at any time.
C40_OneFetchInFlight == ui.fetching <= 1

====
